---- MODULE Spec2Model ----
(***************************************************************************)
(* A model of the state layer of the chatbot library:                      *)
(*   - ChannelContainer (state/channel_state.rs): the map from a channel   *)
(*     key to its frozen typed slot, behind a tokio RwLock;                *)
(*   - Persisted<T> / PersistedChannelState<T> (state/persisted_state.rs): *)
(*     the swappable value, the one-permit semaphore and the files         *)
(*     data/<channel>/<FILENAME>.ron and .ron.temp.                        *)
(* Each component has its own specification; the variables of the other    *)
(* component stay at their initial value.                                  *)
(***************************************************************************)
EXTENDS Integers, Sequences, FiniteSets, TLC

\* ------------------------------------------------------------------------
\* Bounds
\* ------------------------------------------------------------------------

\* number of concurrent callers of the ChannelContainer
NumCallers == 2

\* total number of get / get_arc calls in one behaviour
MaxAccess == 4

Callers == 1..NumCallers

\* number of concurrent tasks that use the persisted values
NumTasks == 2

\* total number of read / update / maybe_update calls in one behaviour
MaxCalls == 2

Tasks == 1..NumTasks

\* words of a command template
MaxWords == 3

\* words of the text a generated function is called with
MaxInputWords == 3

\* handlers of a command processor
MaxCommands == 2
MaxSteps == 4
MaxAppends == 3
MaxSyntaxWords == 3

\* channel keys handed to the container
Keys == {"a", "b"}

\* Option::None of a slot handle (slots are numbered from 1)
NoSlot == 0

\* no caller holds the write lock (callers are numbered from 1)
NoCaller == 0

\* ------------------------------------------------------------------------
\* State
\* ------------------------------------------------------------------------

VARIABLES
    container,     \* ChannelContainer.container: the HashMap key -> slot (Arc identity)
    rw,            \* the tokio RwLock around it: [readers, writer]
    template_log,  \* the keys ChannelContainer.template was invoked with, in order;
                   \* the n-th invocation builds slot n
    cpc,           \* per caller: where it is inside get / get_arc
    cop,           \* per caller: "get" or "get_arc"
    ckey,          \* per caller: the channel argument
    cret,          \* per caller: the slot its last call returned
    guard,         \* per caller: holds a ChannelContainerGuard (a read lock share)
    naccess,       \* calls started so far
    overlapped     \* history: some call started while another call was in progress

cvars == <<container, rw, template_log, cpc, cop, ckey, cret, guard, naccess, overlapped>>

VARIABLES
    inner,         \* per channel: Persisted.inner, the ArcSwapOption (NoValue = None)
    lock,          \* per channel: Persisted.lock, the permits of the Semaphore
    disk,          \* the files: path -> [exists, data]
    dirs,          \* the channel directories data/<channel> that exist
    pc,            \* per task: where it is inside read / maybe_update
    op,            \* per task: "read", "update" or "maybe_update"
    chan,          \* per task: PersistedChannelState.channel
    fn,            \* per task: the closure f given to update / maybe_update
    permit,        \* per task: holds the SemaphorePermit
    value,         \* per task: the local `value` (the current value it loaded)
    new_value,     \* per task: the local `new_value`
    result,        \* per task: the local `result` of store_on_disk
    old_value,     \* per task: the local `old_value` the swap returned
    ret,           \* per task: what the call returned, <<value, new>>
    rhook,         \* per task: the channels its call gave to handle_read_error
    whook,         \* per task: the channels its call gave to handle_write_error
    ncalls,        \* calls started so far
    active,        \* the channel whose value the tasks of this behaviour use
    restarted,     \* the process was restarted at least once
    \* history variables
    snap,          \* per task: the channel's files when it acquired the permit
    left,          \* per task: the channel's files and inner when its call returned
    loaded_at_call,\* per task: a read found the value loaded when it was called
    seen,          \* per task: the values inner held during its read call
    cold,          \* per task: the file and fault its cold load met
    chain,         \* per channel: the swaps of this run, in order
    file0,         \* per channel: the canonical file when the model starts
    written,       \* per channel: the value of the last store whose rename succeeded
    last_update,   \* per channel: the value of the update that returned last
    prev,          \* per channel: last_update and written at the last restart
    first_read,    \* per channel: what the first read() of this run returned
    cold_err       \* per channel: a cold load of this run met an error

pvars == <<inner, lock, disk, dirs, pc, op, chan, fn, permit, value, new_value, result,
           old_value, ret, rhook, whook, ncalls, active, restarted>>

hvars == <<snap, left, loaded_at_call, seen, cold, chain, file0, written,
           last_update, prev, first_read, cold_err>>

VARIABLES
    attr,          \* #[command(..)]: the template literal the macro is given
    item,          \* #[command(..)]: the arguments of the function it is put on
    expansion      \* what the macro expanded to: its tokens and compile errors

macrovars == <<attr, item, expansion>>

VARIABLES
    call_handler,  \* a handler function generated by #[command]
    call_request,  \* the request it is called with
    call_result    \* what the call returned

callvars == <<call_handler, call_request, call_result>>

VARIABLES
    commands,      \* the handlers of commands!, in the order they are listed
    chat_bot,      \* ChatBot: the bot's identity, container, ignore_self, filter
    hpc,           \* where MessageHandler::handle is
    message,       \* the Privmsg it handles
    position,      \* process(): the command that is tried next
    shared_syntax, \* process(): the local shared_syntax
    response,      \* what process() returned
    origin,        \* history: the code that built that response
    sink,          \* the messages written to the outgoing writer, in order
    tried,         \* history: the handlers process() ran, with their outcome
    processed      \* history: the request was given to the command processor

botvars == <<commands, chat_bot, hpc, message, position, shared_syntax, response, origin,
             sink, tried, processed>>

VARIABLES
    iter,          \* a CommandArguments: its text, its range, whether a slice panicked
    iter_calls     \* the calls made on it so far, in order

splitvars == <<iter, iter_calls>>

VARIABLES
    find,          \* a FindSharedSyntax: its prefix and its choice
    appended,      \* the templates it was made from and given, in order
    find_before    \* history: the FindSharedSyntax before the last template

syntaxvars == <<find, appended, find_before>>

VARIABLES
    all_chatters,  \* ChannelChatters.all_chatters: the AllChatters behind the RwLock
    all_channels,  \* ChannelChatters.all_channels: the AllChatters of the channels
    chatters,      \* ChannelChatters.chatters: channel id -> user id -> UserEntry
    channels,      \* ChannelChatters.channels: channel name -> channel id
    noticing,      \* per task: where it is inside notice_chatter, and its arguments
    noticed,       \* the number of messages given to the handler so far
    cleared        \* history: the last moderation clear, with the maps around it

chattervars == <<all_chatters, all_channels, chatters, channels, noticing, noticed,
                 cleared>>

VARIABLES
    given          \* history: the responses given to a MessageResponder, in order

respondvars == <<given>>

\* the parts of chatbot-lib that are exercised on their own
lvars == <<splitvars, syntaxvars, chattervars, respondvars>>

evars == <<macrovars, callvars, botvars, lvars>>

vars == <<cvars, pvars, hvars, evars>>

\* ------------------------------------------------------------------------
\* ChannelContainer
\* ------------------------------------------------------------------------

\* HashMap::new()
EmptyMap == <<>>

\* a lookup that never finds the key
get_channel_container_miss(map, channel) == NoSlot

\* map.get(channel).cloned(): the slot of the key, or None
get_channel_container(map, channel) ==
    IF channel \in DOMAIN map THEN map[channel] ELSE NoSlot

\* map.insert(key, container): an existing entry of the key is replaced
map_insert(map, key, slot) == (key :> slot) @@ map

\* (self.template)(&key, &value): one more invocation, with the key given
run_template(log, key) == Append(log, key)

\* the slot built by the latest template invocation (Arc::new(value))
new_slot(log) == Len(log)

InCall(t) == cpc[t] # "idle"

ContainerInit ==
    /\ container = EmptyMap
    /\ rw = [readers |-> {}, writer |-> NoCaller]
    /\ template_log = <<>>
    /\ cpc = [t \in Callers |-> "idle"]
    /\ cop = [t \in Callers |-> "get_arc"]
    /\ ckey = [t \in Callers |-> "a"]
    /\ cret = [t \in Callers |-> NoSlot]
    /\ guard = [t \in Callers |-> FALSE]
    /\ naccess = 0
    /\ overlapped = FALSE

\* a caller enters get_arc(channel) or get(channel)
Call(t, k, o) ==
    /\ cpc[t] = "idle"
    /\ ~guard[t]
    /\ naccess < MaxAccess
    /\ cpc' = [cpc EXCEPT ![t] = "read"]
    /\ cop' = [cop EXCEPT ![t] = o]
    /\ ckey' = [ckey EXCEPT ![t] = k]
    /\ cret' = [cret EXCEPT ![t] = NoSlot]
    /\ naccess' = naccess + 1
    /\ overlapped' = (overlapped \/ \E u \in Callers \ {t} : InCall(u))
    /\ UNCHANGED <<container, rw, template_log, guard>>
    /\ UNCHANGED <<pvars, hvars, evars>>

\* self.container.read().await
ReadLock(t) ==
    /\ cpc[t] = "read"
    /\ rw.writer = NoCaller
    /\ rw' = [rw EXCEPT !.readers = @ \cup {t}]
    /\ cpc' = [cpc EXCEPT ![t] = "lookup"]
    /\ UNCHANGED <<container, template_log, cop, ckey, cret, guard, naccess, overlapped>>
    /\ UNCHANGED <<pvars, hvars, evars>>

\* the lookup under the read lock: a hit returns (get_arc drops the lock, get keeps
\* it inside the guard), a miss drops the lock and goes on to write()
Lookup(t) ==
    /\ cpc[t] = "lookup"
    /\ LET found == get_channel_container(container, ckey[t]) IN
       IF found # NoSlot
       THEN /\ cret' = [cret EXCEPT ![t] = found]
            /\ cpc' = [cpc EXCEPT ![t] = "idle"]
            /\ IF cop[t] = "get"
               THEN /\ guard' = [guard EXCEPT ![t] = TRUE]
                    /\ rw' = rw
               ELSE /\ guard' = guard
                    /\ rw' = [rw EXCEPT !.readers = @ \ {t}]
       ELSE /\ cpc' = [cpc EXCEPT ![t] = "write"]
            /\ rw' = [rw EXCEPT !.readers = @ \ {t}]
            /\ UNCHANGED <<cret, guard>>
    /\ UNCHANGED <<container, template_log, cop, ckey, naccess, overlapped>>
    /\ UNCHANGED <<pvars, hvars, evars>>

\* self.container.write().await
WriteLock(t) ==
    /\ cpc[t] = "write"
    /\ rw.writer = NoCaller
    /\ rw.readers = {}
    /\ rw' = [rw EXCEPT !.writer = t]
    /\ cpc' = [cpc EXCEPT ![t] = "insert"]
    /\ UNCHANGED <<container, template_log, cop, ckey, cret, guard, naccess, overlapped>>
    /\ UNCHANGED <<pvars, hvars, evars>>

\* under the write lock: build a slot with the template, freeze it, insert it and
\* return it (get downgrades the write lock to the read lock of its guard)
InsertNew(t) ==
    /\ cpc[t] = "insert"
    /\ rw.writer = t
    /\ LET log == run_template(template_log, ckey[t])
           slot == new_slot(log)
       IN /\ template_log' = log
          /\ container' = map_insert(container, ckey[t], slot)
          /\ cret' = [cret EXCEPT ![t] = slot]
    /\ cpc' = [cpc EXCEPT ![t] = "idle"]
    /\ IF cop[t] = "get"
       THEN /\ rw' = [readers |-> rw.readers \cup {t}, writer |-> NoCaller]
            /\ guard' = [guard EXCEPT ![t] = TRUE]
       ELSE /\ rw' = [rw EXCEPT !.writer = NoCaller]
            /\ guard' = guard
    /\ UNCHANGED <<cop, ckey, naccess, overlapped>>
    /\ UNCHANGED <<pvars, hvars, evars>>

\* the caller drops its ChannelContainerGuard
DropGuard(t) ==
    /\ guard[t]
    /\ guard' = [guard EXCEPT ![t] = FALSE]
    /\ rw' = [rw EXCEPT !.readers = @ \ {t}]
    /\ UNCHANGED <<container, template_log, cpc, cop, ckey, cret, naccess, overlapped>>
    /\ UNCHANGED <<pvars, hvars, evars>>

ContainerNext ==
    \E t \in Callers :
        \/ \E k \in Keys, o \in {"get_arc", "get"} : Call(t, k, o)
        \/ ReadLock(t)
        \/ Lookup(t)
        \/ WriteLock(t)
        \/ InsertNew(t)
        \/ DropGuard(t)

\* ------------------------------------------------------------------------
\* Persisted<T>: the type, the files and the pure helpers
\* ------------------------------------------------------------------------

Channels == Keys

\* ArcSwapOption::new(None): no value is loaded
NoValue == -1

\* Semaphore::new(1)
Permits == 1

\* <T as PersistedType>::init(channel)
init(channel) == IF channel = "a" THEN 0 ELSE 1

\* <T as PersistedType>::handle_read_error(channel, error): the default body
handle_read_error(channel) == init(channel)

\* Persisted::new()
Persisted_new == [inner |-> NoValue, lock |-> Permits]

\* Persisted::from(value)
Persisted_from(v) == [inner |-> v, lock |-> Permits]

\* the template of the modelled bot: channel "a" registers the type with
\* register_persisted_type, every other channel with register_persisted_value
register_persisted(channel) ==
    IF channel = "a" THEN Persisted_new ELSE Persisted_from(6)

\* the closures given to update and maybe_update: f(&value), NoValue for the
\* None ("no change") of a maybe_update closure
Apply(f, v) ==
    CASE f = "add2" -> v + 2
      [] f = "inc_even" -> IF v % 2 = 0 THEN v + 1 ELSE NoValue
      [] OTHER -> NoValue

UpdateFns == {"add2"}
MaybeFns == {"inc_even"}

\* a file: absent, or its content as a sequence of written chunks
Absent == [exists |-> FALSE, data |-> <<>>]
File(data) == [exists |-> TRUE, data |-> data]

\* ron::ser::to_writer_pretty: the chunks written for a value
Serialize(v) == <<v, "end">>

ParseError == -2

\* ron::de::from_reader: the value of a complete serialization, else an error
Parse(data) ==
    IF Len(data) = 2 /\ data[2] = "end" THEN data[1] ELSE ParseError

\* a canonical file that does not parse (cut short)
Corrupt == File(<<5>>)

\* a canonical file left by an earlier run of the bot
Earlier == File(Serialize(5))

\* store_on_disk with one path for both the temporary and the canonical file
prepare_paths_in_place(channel) ==
    [temp_path |-> <<channel, "ron">>, path |-> <<channel, "ron">>]

\* prepare_paths: data/<channel>/<FILENAME>.ron.temp and .ron
prepare_paths(channel) ==
    [temp_path |-> <<channel, "ron.temp">>, path |-> <<channel, "ron">>]

\* prepare_path: data/<channel>/<FILENAME>.ron
prepare_path(channel) == <<channel, "ron">>

Paths == Channels \X {"ron", "ron.temp"}

\* what the environment does to a cold load: nothing, an open error other than
\* NotFound, or a read error
Faults == {"none", "open", "read"}

Ok(v) == [err |-> FALSE, val |-> v]
Err == [err |-> TRUE, val |-> NoValue]

\* read_from_disk that reports a missing file as an error
read_from_disk_strict(file, fault) ==
    IF fault = "open" \/ ~file.exists \/ fault = "read" THEN Err
    ELSE IF Parse(file.data) = ParseError THEN Err
    ELSE Ok(Parse(file.data))

\* read_from_disk: Ok(Some(value)), Ok(None) when open says NotFound, else Err
read_from_disk(file, fault) ==
    IF fault = "open" THEN Err
    ELSE IF ~file.exists THEN Ok(NoValue)
    ELSE IF fault = "read" THEN Err
    ELSE IF Parse(file.data) = ParseError THEN Err
    ELSE Ok(Parse(file.data))

\* value.unwrap_or_else(handle_read_error).unwrap_or_else(init)
cold_result(channel, r) ==
    IF r.err THEN handle_read_error(channel)
    ELSE IF r.val = NoValue THEN init(channel)
    ELSE r.val

\* a semaphore that hands out a permit it does not have
CanAcquire_always(permits) == TRUE

\* Semaphore::acquire: a permit is available
CanAcquire(permits) == permits > 0

\* the files of one channel
ChannelFiles(c) == [file |-> disk[<<c, "ron">>], temp |-> disk[<<c, "ron.temp">>],
                    dir |-> c \in dirs]

NoSnap == [file |-> Absent, temp |-> Absent, dir |-> FALSE]
NoLeft == [files |-> NoSnap, inner |-> NoValue]
NoCold == [did |-> FALSE, file |-> Absent, io |-> FALSE]
NoPrev == [last |-> NoValue, file_new |-> NoValue]
Unset == NoValue
Late == NoValue - 1

Active(t) == pc[t] \notin {"idle", "done"}

\* the readers in a call on channel c see value v in inner
Observe(c, v) ==
    [u \in Tasks |->
        IF op[u] = "read" /\ chan[u] = c /\ Active(u) THEN seen[u] \cup {v} ELSE seen[u]]

TaskIdle ==
    /\ pc = [t \in Tasks |-> "idle"]
    /\ op = [t \in Tasks |-> "read"]
    /\ chan = [t \in Tasks |-> "a"]
    /\ fn = [t \in Tasks |-> "none"]
    /\ permit = [t \in Tasks |-> FALSE]
    /\ value = [t \in Tasks |-> NoValue]
    /\ new_value = [t \in Tasks |-> NoValue]
    /\ result = [t \in Tasks |-> "none"]
    /\ old_value = [t \in Tasks |-> NoValue]
    /\ ret = [t \in Tasks |-> <<NoValue, NoValue>>]
    /\ rhook = [t \in Tasks |-> <<>>]
    /\ whook = [t \in Tasks |-> <<>>]
    /\ snap = [t \in Tasks |-> NoSnap]
    /\ left = [t \in Tasks |-> NoLeft]
    /\ loaded_at_call = [t \in Tasks |-> FALSE]
    /\ seen = [t \in Tasks |-> {}]
    /\ cold = [t \in Tasks |-> NoCold]

\* every task is dropped with the process
TaskReset ==
    /\ pc' = [t \in Tasks |-> "idle"]
    /\ op' = [t \in Tasks |-> "read"]
    /\ chan' = [t \in Tasks |-> "a"]
    /\ fn' = [t \in Tasks |-> "none"]
    /\ permit' = [t \in Tasks |-> FALSE]
    /\ value' = [t \in Tasks |-> NoValue]
    /\ new_value' = [t \in Tasks |-> NoValue]
    /\ result' = [t \in Tasks |-> "none"]
    /\ old_value' = [t \in Tasks |-> NoValue]
    /\ ret' = [t \in Tasks |-> <<NoValue, NoValue>>]
    /\ rhook' = [t \in Tasks |-> <<>>]
    /\ whook' = [t \in Tasks |-> <<>>]
    /\ snap' = [t \in Tasks |-> NoSnap]
    /\ left' = [t \in Tasks |-> NoLeft]
    /\ loaded_at_call' = [t \in Tasks |-> FALSE]
    /\ seen' = [t \in Tasks |-> {}]
    /\ cold' = [t \in Tasks |-> NoCold]

\* the state after construction: every slot as its template registered it, the
\* canonical file of "a" absent, left by an earlier run, or cut short; the
\* requests of one behaviour all come from one channel
PersistedStart(a, f) ==
    /\ active = a
    /\ inner = [c \in Channels |-> register_persisted(c).inner]
    /\ lock = [c \in Channels |-> register_persisted(c).lock]
    /\ disk = [p \in Paths |-> IF p = <<"a", "ron">> THEN f ELSE Absent]
    /\ dirs = IF f.exists THEN {"a"} ELSE {}
    /\ TaskIdle
    /\ ncalls = 0
    /\ restarted = FALSE
    /\ chain = [c \in Channels |-> <<>>]
    /\ file0 = [c \in Channels |-> IF c = "a" THEN f ELSE Absent]
    /\ written = [c \in Channels |-> NoValue]
    /\ last_update = [c \in Channels |-> NoValue]
    /\ prev = [c \in Channels |-> NoPrev]
    /\ first_read = [c \in Channels |-> Unset]
    /\ cold_err = [c \in Channels |-> FALSE]

PersistedInit ==
    \E a \in Channels, f \in {Absent, Earlier, Corrupt} :
        /\ a # "a" => f = Absent
        /\ PersistedStart(a, f)

locals == <<value, new_value, result, old_value, rhook, whook>>

\* a call of read(), update(f) or maybe_update(f) on the value of a channel starts
\* on the first free task (the tasks are interchangeable); what the task's
\* previous call left behind is dropped
PCall(t, c, o, f) ==
    /\ UNCHANGED <<cvars, active, evars>>
    /\ pc[t] \in {"idle", "done"}
    /\ \A u \in Tasks : u < t => Active(u)
    /\ c = active
    /\ ncalls < MaxCalls
    /\ ncalls' = ncalls + 1
    /\ op' = [op EXCEPT ![t] = o]
    /\ chan' = [chan EXCEPT ![t] = c]
    /\ fn' = [fn EXCEPT ![t] = f]
    /\ pc' = [pc EXCEPT ![t] = IF o = "read" THEN "rd_load" ELSE "mu_acquire"]
    /\ value' = [value EXCEPT ![t] = NoValue]
    /\ new_value' = [new_value EXCEPT ![t] = NoValue]
    /\ result' = [result EXCEPT ![t] = "none"]
    /\ old_value' = [old_value EXCEPT ![t] = NoValue]
    /\ ret' = [ret EXCEPT ![t] = <<NoValue, NoValue>>]
    /\ rhook' = [rhook EXCEPT ![t] = <<>>]
    /\ whook' = [whook EXCEPT ![t] = <<>>]
    /\ snap' = [snap EXCEPT ![t] = NoSnap]
    /\ left' = [left EXCEPT ![t] = NoLeft]
    /\ cold' = [cold EXCEPT ![t] = NoCold]
    /\ loaded_at_call' = [loaded_at_call EXCEPT ![t] = (o = "read" /\ inner[c] # NoValue)]
    /\ seen' = [seen EXCEPT ![t] = IF o = "read" /\ inner[c] # NoValue THEN {inner[c]} ELSE {}]
    /\ UNCHANGED <<inner, lock, disk, dirs, permit, restarted, chain, file0, written,
                   last_update, prev, first_read, cold_err>>

\* what a read() that returns v leaves in first_read
NoteRead(c, v) ==
    [first_read EXCEPT ![c] = IF @ # Unset THEN @ ELSE IF chain[c] = <<>> THEN v ELSE Late]

\* read() finds the value loaded, although it was called with the value loaded,
\* only after it has queued for the permit
ReadFast_never(v) == FALSE

\* read(), line 78: Some(value) => value.clone()
ReadFast(v) == v # NoValue

\* read(), lines 78-80: the value is loaded -> return it; else go for the permit
ReadLoad(t) ==
    /\ UNCHANGED <<cvars, active, evars>>
    /\ pc[t] = "rd_load"
    /\ LET c == chan[t] IN
       IF ReadFast(inner[c])
       THEN /\ ret' = [ret EXCEPT ![t] = <<inner[c], NoValue>>]
            /\ pc' = [pc EXCEPT ![t] = "done"]
            /\ first_read' = NoteRead(c, inner[c])
       ELSE /\ pc' = [pc EXCEPT ![t] = "rd_acquire"]
            /\ UNCHANGED <<ret, first_read>>
    /\ UNCHANGED <<inner, lock, disk, dirs, op, chan, fn, permit, locals, ncalls, restarted,
                   snap, left, loaded_at_call, seen, cold, chain, file0, written,
                   last_update, prev, cold_err>>

\* read(), lines 81-84: self.lock.acquire().await, then the second look: a value
\* loaded meanwhile is returned (the permit drops with the return)
ReadAcquire(t) ==
    /\ UNCHANGED <<cvars, active, evars>>
    /\ pc[t] = "rd_acquire"
    /\ CanAcquire(lock[chan[t]])
    /\ LET c == chan[t] IN
       IF inner[c] # NoValue
       THEN /\ ret' = [ret EXCEPT ![t] = <<inner[c], NoValue>>]
            /\ pc' = [pc EXCEPT ![t] = "done"]
            /\ first_read' = NoteRead(c, inner[c])
            /\ UNCHANGED <<permit, lock>>
       ELSE /\ pc' = [pc EXCEPT ![t] = "rd_disk"]
            /\ permit' = [permit EXCEPT ![t] = TRUE]
            /\ lock' = [lock EXCEPT ![c] = @ - 1]
            /\ UNCHANGED <<ret, first_read>>
    /\ UNCHANGED <<inner, disk, dirs, op, chan, fn, locals, ncalls, restarted,
                   snap, left, loaded_at_call, seen, cold, chain, file0, written,
                   last_update, prev, cold_err>>

\* the cold load of read() and maybe_update(): read_from_disk, the fall back to
\* the hooks, self.inner.store(Some(result))
ColdLoad(t, fault) ==
    LET c == chan[t]
        file == disk[prepare_path(c)]
        r == read_from_disk(file, fault)
        v == cold_result(c, r)
    IN /\ inner' = [inner EXCEPT ![c] = v]
       /\ value' = [value EXCEPT ![t] = v]
       /\ rhook' = [rhook EXCEPT ![t] = IF r.err THEN Append(@, c) ELSE @]
       /\ cold' = [cold EXCEPT ![t] =
                      [did |-> TRUE, file |-> file,
                       io |-> (fault = "open" \/ (fault = "read" /\ file.exists))]]
       /\ cold_err' = [cold_err EXCEPT ![c] = @ \/ r.err]
       /\ seen' = Observe(c, v)

\* read(), lines 85-99: the cold load, drop(permit), result
ReadDisk(t) ==
    /\ UNCHANGED <<cvars, active, evars>>
    /\ pc[t] = "rd_disk"
    /\ \E fault \in Faults : ColdLoad(t, fault)
    /\ permit' = [permit EXCEPT ![t] = FALSE]
    /\ lock' = [lock EXCEPT ![chan[t]] = @ + 1]
    /\ ret' = [ret EXCEPT ![t] = <<value'[t], NoValue>>]
    /\ first_read' = NoteRead(chan[t], value'[t])
    /\ left' = [left EXCEPT ![t] = [files |-> ChannelFiles(chan[t]), inner |-> value'[t]]]
    /\ pc' = [pc EXCEPT ![t] = "done"]
    /\ UNCHANGED <<disk, dirs, op, chan, fn, new_value, result, old_value, whook, ncalls,
                   restarted, snap, loaded_at_call, chain, file0, written,
                   last_update, prev>>

\* maybe_update(), line 133: the closure asked for a store although it said None
NoChange_never(optional_value) == FALSE

\* maybe_update(), line 133: `if let Some(new_value) = optional_value` does not match
NoChange(optional_value) == optional_value = NoValue

\* maybe_update(), lines 132-134 and 152, for the current value v while the
\* permit is held and `permits` are left: f(&value); "no change" returns
\* (value, None) and the permit drops, else the new value goes to store_on_disk
MuApply(t, v, permits) ==
    LET c == chan[t]
        optional_value == Apply(fn[t], v)
    IN IF NoChange(optional_value)
       THEN /\ ret' = [ret EXCEPT ![t] = <<v, NoValue>>]
            /\ permit' = [permit EXCEPT ![t] = FALSE]
            /\ lock' = [lock EXCEPT ![c] = permits + 1]
            /\ left' = [left EXCEPT ![t] = [files |-> ChannelFiles(c), inner |-> inner'[c]]]
            /\ pc' = [pc EXCEPT ![t] = "done"]
            /\ new_value' = new_value
       ELSE /\ new_value' = [new_value EXCEPT ![t] = optional_value]
            /\ permit' = [permit EXCEPT ![t] = TRUE]
            /\ lock' = [lock EXCEPT ![c] = permits]
            /\ pc' = [pc EXCEPT ![t] = "st_open"]
            /\ UNCHANGED <<ret, left>>

\* maybe_update(), lines 109-113: self.lock.acquire().await; the value is loaded
\* -> take it and apply f; else load it
MuAcquire(t) ==
    /\ UNCHANGED <<cvars, active, evars>>
    /\ pc[t] = "mu_acquire"
    /\ CanAcquire(lock[chan[t]])
    /\ snap' = [snap EXCEPT ![t] = ChannelFiles(chan[t])]
    /\ LET c == chan[t] IN
       IF inner[c] # NoValue
       THEN /\ value' = [value EXCEPT ![t] = inner[c]]
            /\ inner' = inner
            /\ MuApply(t, inner[c], lock[c] - 1)
       ELSE /\ pc' = [pc EXCEPT ![t] = "mu_disk"]
            /\ permit' = [permit EXCEPT ![t] = TRUE]
            /\ lock' = [lock EXCEPT ![c] = @ - 1]
            /\ UNCHANGED <<inner, value, new_value, ret, left>>
    /\ UNCHANGED <<disk, dirs, op, chan, fn, result, old_value, rhook, whook, ncalls, restarted,
                   loaded_at_call, seen, cold, chain, file0, written, last_update, prev,
                   first_read, cold_err>>

\* maybe_update(), lines 117-134: the cold load, then f
MuDisk(t) ==
    /\ UNCHANGED <<cvars, active, evars>>
    /\ pc[t] = "mu_disk"
    /\ \E fault \in Faults : ColdLoad(t, fault)
    /\ MuApply(t, value'[t], lock[chan[t]])
    /\ UNCHANGED <<disk, dirs, op, chan, fn, result, old_value, whook, ncalls, restarted, snap,
                   loaded_at_call, chain, file0, written, last_update, prev, first_read>>

\* a store_on_disk that starts again after a failed step
StoreFailed_again(t) ==
    /\ result' = [result EXCEPT ![t] = "err"]
    /\ pc' = [pc EXCEPT ![t] = "st_open"]

\* a step of store_on_disk failed: result = Err(e), on to the swap
StoreFailed(t) ==
    /\ result' = [result EXCEPT ![t] = "err"]
    /\ pc' = [pc EXCEPT ![t] = "mu_swap"]

store_frame == <<inner, lock, op, chan, fn, permit, value, new_value, old_value, rhook,
                 whook, ret, ncalls, restarted, snap, left, loaded_at_call, seen, cold, chain,
                 file0, last_update, prev, first_read, cold_err>>

\* store_on_disk, lines 187-196: prepare_paths with create_dir_all, then open the
\* temporary file, created or truncated; either of the two may fail
StOpen(t) ==
    /\ UNCHANGED <<cvars, active, evars>>
    /\ pc[t] = "st_open"
    /\ \/ /\ dirs' = dirs \cup {chan[t]}
          /\ disk' = [disk EXCEPT ![prepare_paths(chan[t]).temp_path] = File(<<>>)]
          /\ pc' = [pc EXCEPT ![t] = "st_write"]
          /\ result' = result
       \/ /\ StoreFailed(t)
          /\ dirs' = dirs \cup {chan[t]}
          /\ disk' = disk
       \/ /\ StoreFailed(t)
          /\ UNCHANGED <<dirs, disk>>
    /\ UNCHANGED <<written, store_frame>>

\* store_on_disk, lines 197-201: to_writer_pretty writes the next chunk, or fails
StWrite(t) ==
    /\ UNCHANGED <<cvars, active, evars>>
    /\ pc[t] = "st_write"
    /\ LET p == prepare_paths(chan[t]).temp_path
           text == Serialize(new_value[t])
           n == Len(disk[p].data) + 1
       IN \/ /\ n <= Len(text)
             /\ disk' = [disk EXCEPT ![p] = File(Append(@.data, text[n]))]
             /\ pc' = [pc EXCEPT ![t] = IF n = Len(text) THEN "st_rename" ELSE "st_write"]
             /\ result' = result
          \/ /\ StoreFailed(t)
             /\ disk' = disk
    /\ UNCHANGED <<dirs, written, store_frame>>

\* std::fs::rename(temp_path, path): the temporary file replaces the canonical one
rename(d, from, to) ==
    IF from = to THEN d
    ELSE [d EXCEPT ![to] = d[from], ![from] = Absent]

\* store_on_disk, lines 202-205: sync_all, then rename, Ok(()); either may fail
StRename(t) ==
    /\ UNCHANGED <<cvars, active, evars>>
    /\ pc[t] = "st_rename"
    /\ LET paths == prepare_paths(chan[t]) IN
       \/ /\ disk' = rename(disk, paths.temp_path, paths.path)
          /\ result' = [result EXCEPT ![t] = "ok"]
          /\ pc' = [pc EXCEPT ![t] = "mu_swap"]
          /\ written' = [written EXCEPT ![chan[t]] = new_value[t]]
       \/ /\ StoreFailed(t)
          /\ UNCHANGED <<disk, written>>
    /\ UNCHANGED <<dirs, store_frame>>

\* a write-error hook that is never told
report_write_error_skip(log, channel) == log

\* handle_write_error(self.channel, e): the hook is given the channel
report_write_error(log, channel) == Append(log, channel)

\* maybe_update(), lines 136-150: self.inner.swap(Some(new_value)), drop(permit),
\* on Err the write-error hook, then (old_value.expect(..), Some(new_value));
\* update() unwraps the new value
MuSwap(t) ==
    /\ UNCHANGED <<cvars, active, evars>>
    /\ pc[t] = "mu_swap"
    /\ inner[chan[t]] # NoValue
    /\ LET c == chan[t] IN
       /\ old_value' = [old_value EXCEPT ![t] = inner[c]]
       /\ inner' = [inner EXCEPT ![c] = new_value[t]]
       /\ chain' = [chain EXCEPT ![c] =
                       Append(@, [old |-> inner[c], new |-> new_value[t],
                                  f |-> fn[t], by |-> t])]
       /\ seen' = Observe(c, new_value[t])
       /\ permit' = [permit EXCEPT ![t] = FALSE]
       /\ lock' = [lock EXCEPT ![c] = @ + 1]
       /\ whook' = [whook EXCEPT ![t] =
                       IF result[t] = "err" THEN report_write_error(@, c) ELSE @]
       /\ ret' = [ret EXCEPT ![t] = <<inner[c], new_value[t]>>]
       /\ left' = [left EXCEPT ![t] = [files |-> ChannelFiles(c), inner |-> inner'[c]]]
       /\ last_update' = [last_update EXCEPT ![c] = new_value[t]]
    /\ pc' = [pc EXCEPT ![t] = "done"]
    /\ UNCHANGED <<disk, dirs, op, chan, fn, value, new_value, result, rhook, ncalls, restarted,
                   snap, loaded_at_call, cold, file0, written, prev, first_read, cold_err>>

\* the process stops at any point and starts again: the memory is rebuilt by the
\* template, the files stay
Restart ==
    /\ UNCHANGED <<cvars, active, evars>>
    /\ restarted' = TRUE
    /\ inner' = [c \in Channels |-> register_persisted(c).inner]
    /\ lock' = [c \in Channels |-> register_persisted(c).lock]
    /\ TaskReset
    /\ chain' = [c \in Channels |-> <<>>]
    /\ prev' = [c \in Channels |->
                   [last |-> last_update[c], file_new |-> written[c]]]
    /\ first_read' = [c \in Channels |-> Unset]
    /\ cold_err' = [c \in Channels |-> FALSE]
    /\ UNCHANGED <<disk, dirs, ncalls, file0, written, last_update>>

PersistedNext ==
    \/ \E t \in Tasks, c \in Channels :
          \/ PCall(t, c, "read", "none")
          \/ \E f \in UpdateFns : PCall(t, c, "update", f)
          \/ \E f \in MaybeFns : PCall(t, c, "maybe_update", f)
    \/ \E t \in Tasks :
          \/ ReadLoad(t)
          \/ ReadAcquire(t)
          \/ ReadDisk(t)
          \/ MuAcquire(t)
          \/ MuDisk(t)
          \/ StOpen(t)
          \/ StWrite(t)
          \/ StRename(t)
          \/ MuSwap(t)
    \/ Restart

\* the next step of the call a task is in: each is a poll of the future of
\* the call, or the completion of a disk operation it awaits
TaskStep(t) ==
    \/ ReadLoad(t)
    \/ ReadAcquire(t)
    \/ ReadDisk(t)
    \/ MuAcquire(t)
    \/ MuDisk(t)
    \/ StOpen(t)
    \/ StWrite(t)
    \/ StRename(t)
    \/ MuSwap(t)

\* a process that keeps running: calls start and go on
PersistedRunNext ==
    \/ \E t \in Tasks, c \in Channels :
          \/ PCall(t, c, "read", "none")
          \/ \E f \in UpdateFns : PCall(t, c, "update", f)
          \/ \E f \in MaybeFns : PCall(t, c, "maybe_update", f)
    \/ \E t \in Tasks : TaskStep(t)

\* ------------------------------------------------------------------------
\* Text and CommandArguments (command/split.rs)
\* ------------------------------------------------------------------------
\* A text is a sequence of characters, each a one-character string; a byte
\* offset of the code is the number of characters before it.  Option<&str> is
\* the text itself, None being the empty text: every Some the splitter returns
\* went through none_if_empty.

None == <<>>

\* char::is_whitespace
is_whitespace(c) == c = " "

\* &text[a..b]
Slice(text, a, b) == SubSeq(text, a + 1, b)

\* text.find(|c| !c.is_whitespace()): the offset of the first word character,
\* Len(text) standing for None
find_word(text) ==
    IF \E i \in 1..Len(text) : ~is_whitespace(text[i])
    THEN (CHOOSE i \in 1..Len(text) :
              /\ ~is_whitespace(text[i])
              /\ \A j \in 1..(i - 1) : is_whitespace(text[j])) - 1
    ELSE Len(text)

\* text.rfind(|c| !c.is_whitespace()) + 1: the offset after the last word
\* character, 0 standing for None
rfind_word(text) ==
    IF \E i \in 1..Len(text) : ~is_whitespace(text[i])
    THEN CHOOSE i \in 1..Len(text) :
              /\ ~is_whitespace(text[i])
              /\ \A j \in (i + 1)..Len(text) : is_whitespace(text[j])
    ELSE 0

\* find_index(text, char::is_whitespace)
find_index(text) ==
    IF \E i \in 1..Len(text) : is_whitespace(text[i])
    THEN (CHOOSE i \in 1..Len(text) :
              /\ is_whitespace(text[i])
              /\ \A j \in 1..(i - 1) : ~is_whitespace(text[j])) - 1
    ELSE Len(text)

\* rfind_index_plus_one(text, char::is_whitespace): the offset, inside text,
\* of the first character of the run of word characters text ends with
rfind_index_plus_one(text) ==
    IF \E i \in 1..Len(text) : is_whitespace(text[i])
    THEN CHOOSE i \in 1..Len(text) :
              /\ is_whitespace(text[i])
              /\ \A j \in (i + 1)..Len(text) : ~is_whitespace(text[j])
    ELSE 0

\* str::trim
trim(text) ==
    IF find_word(text) = Len(text) THEN <<>>
    ELSE Slice(text, find_word(text), rfind_word(text))

\* str::split_whitespace
RECURSIVE split_whitespace(_)
split_whitespace(text) ==
    LET start == find_word(text)
        index == start + find_index(Slice(text, start, Len(text)))
    IN  IF start = Len(text) THEN <<>>
        ELSE <<Slice(text, start, index)>>
                 \o split_whitespace(Slice(text, index, Len(text)))

\* CommandArguments::from(text); `panicked` records that a slice of the text
\* was taken with a range whose start lies behind its end
CommandArguments_from(text) ==
    [str |-> text, start |-> 0, end |-> Len(text), panicked |-> FALSE]

\* the range of the iterator is a range a slice can be taken with
Sliceable(it) == ~it.panicked /\ it.start <= it.end /\ it.end <= Len(it.str)

Panicked(it) == [it EXCEPT !.panicked = TRUE]

\* the range as it is, whitespace at its ends included
as_str_untrimmed(it) == IF Sliceable(it) THEN Slice(it.str, it.start, it.end) ELSE None

\* CommandArguments::as_str
as_str(it) == IF Sliceable(it) THEN trim(Slice(it.str, it.start, it.end)) ELSE None

\* CommandArguments::next_rest: <<the iterator afterwards, the item>>
next_rest(it) ==
    IF Sliceable(it)
    THEN <<[it EXCEPT !.start = 0, !.end = 0], as_str(it)>>
    ELSE <<Panicked(it), None>>

\* CommandArguments::consumed_begin
consumed_begin(it) == CommandArguments_from(Slice(it.str, 0, it.start))

\* CommandArguments::consumed_end
consumed_end(it) == CommandArguments_from(Slice(it.str, it.end, Len(it.str)))

\* Iterator::next
next(it) ==
    IF ~Sliceable(it) THEN <<Panicked(it), None>>
    ELSE LET rest == Slice(it.str, it.start, it.end)
             start == it.start + find_word(rest)
             index == start + find_index(Slice(it.str, start, it.end))
         IN  IF find_word(rest) = Len(rest) THEN <<it, None>>
             ELSE <<[it EXCEPT !.start = index], Slice(it.str, start, index)>>

\* DoubleEndedIterator::next_back: the offset rfind_index_plus_one returns counts
\* from the start of the range, and is used as an offset into the whole text
next_back(it) ==
    IF ~Sliceable(it) THEN <<Panicked(it), None>>
    ELSE LET rest == Slice(it.str, it.start, it.end)
             end == it.start + rfind_word(rest)
             index == rfind_index_plus_one(Slice(it.str, it.start, end))
         IN  IF rfind_word(rest) = 0 THEN <<it, None>>
             ELSE <<[it EXCEPT !.end = index], Slice(it.str, index, end)>>

\* ------------------------------------------------------------------------
\* Command templates (chatbot-macro: pattern.rs, rev_on.rs, token.rs, lib.rs)
\* ------------------------------------------------------------------------

starts_with(word, c) == Len(word) >= 1 /\ word[1] = c

ends_with(word, c) == Len(word) >= 1 /\ word[Len(word)] = c

\* word.strip_prefix(open).and_then(|word| word.strip_suffix(close)) is Some
Bracketed(word, open, close) ==
    starts_with(word, open) /\ ends_with(Slice(word, 1, Len(word)), close)

\* the word between the brackets
Unbracketed(word) == Slice(word, 1, Len(word) - 1)

\* word.strip_suffix("..") is Some
HasDots(word) ==
    Len(word) >= 2 /\ word[Len(word) - 1] = "." /\ word[Len(word)] = "."

Argument(word, optional) ==
    [kind |-> "Argument",
     name |-> IF HasDots(word) THEN Slice(word, 0, Len(word) - 2) ELSE word,
     take_all |-> HasDots(word),
     optional |-> optional]

\* impl From<&str> for CommandPattern
CommandPattern_from(word) ==
    IF starts_with(word, "!")
    THEN [kind |-> "Command", name |-> word, take_all |-> FALSE, optional |-> FALSE]
    ELSE IF word = <<".", ".">>
    THEN [kind |-> "TakeAll", name |-> <<>>, take_all |-> FALSE, optional |-> FALSE]
    ELSE IF Bracketed(word, "<", ">") THEN Argument(Unbracketed(word), FALSE)
    ELSE IF Bracketed(word, "[", "]") THEN Argument(Unbracketed(word), TRUE)
    ELSE [kind |-> "Subcommand", name |-> word, take_all |-> FALSE, optional |-> FALSE]

\* CommandPattern::key
key(pattern) == pattern.name

\* CommandPattern::is_taking_all
is_taking_all(pattern) ==
    \/ pattern.kind = "Argument" /\ pattern.take_all
    \/ pattern.kind = "TakeAll"

\* CommandPattern::is_optional
is_optional(pattern) ==
    \/ pattern.kind = "Argument" /\ pattern.optional
    \/ pattern.kind = "TakeAll"

\* .collect() into the IndexMap keyed by the pattern: a pattern equal to an
\* earlier one takes the earlier one's entry, so it adds none
RECURSIVE collect(_)
collect(patterns) ==
    IF patterns = <<>> THEN <<>>
    ELSE LET front == collect(SubSeq(patterns, 1, Len(patterns) - 1))
             last == patterns[Len(patterns)]
         IN  IF \E i \in 1..Len(front) : front[i] = last
             THEN front
             ELSE Append(front, last)

\* command_template.split_whitespace().map(Into::into).map(|c| (c, None)).collect()
command_args(command_template) ==
    LET words == split_whitespace(command_template)
    IN  collect([i \in 1..Len(words) |-> CommandPattern_from(words[i])])

\* command_args.get_mut(name).is_some(), over the function's arguments: the
\* entry has a function argument of its key
HasIdent(pattern, fn_args) == \E i \in 1..Len(fn_args) : fn_args[i].arg = key(pattern)

\* the function argument an entry was matched with
IdentOf(pattern, fn_args) ==
    fn_args[CHOOSE i \in 1..Len(fn_args) : fn_args[i].arg = key(pattern)]

Reverse(s) == [i \in 1..Len(s) |-> s[Len(s) + 1 - i]]

\* the offset of the first item the closure of rev_on holds for, 0 if none
FirstTakingAll(args) ==
    IF \E i \in 1..Len(args) : is_taking_all(args[i])
    THEN CHOOSE i \in 1..Len(args) :
             /\ is_taking_all(args[i])
             /\ \A j \in 1..(i - 1) : ~is_taking_all(args[j])
    ELSE 0

\* an iterator that never turns around
rev_on_never(args) == [i \in 1..Len(args) |-> <<args[i], FALSE>>]

\* RevOn::next until None: the items before the first taking-all one in order,
\* then the items behind it from the back, then that item; the flag says the
\* iterator had turned around
rev_on(args) ==
    LET k == FirstTakingAll(args)
        front == SubSeq(args, 1, k - 1)
        back == Reverse(SubSeq(args, k + 1, Len(args)))
    IN  IF k = 0 THEN [i \in 1..Len(args) |-> <<args[i], FALSE>>]
        ELSE [i \in 1..Len(front) |-> <<front[i], FALSE>>]
                 \o [i \in 1..Len(back) |-> <<back[i], TRUE>>]
                 \o << <<args[k], TRUE>> >>

\* CommandPatternToken::new
CommandPatternToken(pattern, rev, fn_args) ==
    [pattern |-> pattern,
     direction |-> IF rev THEN "Backwards" ELSE "Forwards",
     ident |-> HasIdent(pattern, fn_args)]

\* CommandPatternScanner::new
CommandPatternScanner_new == [optional |-> FALSE, take_all |-> FALSE]

\* CommandPatternScanner::scan, the scanner afterwards
scan_state(self, token) ==
    [optional |-> self.optional \/ is_optional(token.pattern),
     take_all |-> self.take_all \/ is_taking_all(token.pattern)]

\* CommandPatternScanner::scan and into_token_stream, the compile errors the
\* token is expanded with
scan_errors(self, token) ==
    (IF ~is_optional(token.pattern) /\ self.optional /\ ~self.take_all
     THEN {"has to be optional"} ELSE {})
    \cup (IF self.take_all THEN {"Only one .. allowed"} ELSE {})
    \cup (IF token.pattern.kind = "Argument" /\ ~token.ident
          THEN {"can not be found in function arguments"} ELSE {})
    \cup (IF token.pattern.kind # "Argument" /\ token.ident
          THEN {"Unexpected error: No pattern"} ELSE {})

\* Iterator::scan over the tokens: the errors of all of them
RECURSIVE scan(_, _)
scan(self, tokens) ==
    IF tokens = <<>> THEN {}
    ELSE scan_errors(self, Head(tokens))
             \cup scan(scan_state(self, Head(tokens)), Tail(tokens))

\* the tokens of #[command(template)] on a function with the arguments fn_args,
\* in the order the generated function runs them
command_parser(command_template, fn_args) ==
    LET items == rev_on(command_args(command_template))
    IN  [i \in 1..Len(items) |-> CommandPatternToken(items[i][1], items[i][2], fn_args)]

\* the compile errors of #[command(template)] on that function; the template
\* is accepted when there is none
command(command_template, fn_args) ==
    scan(CommandPatternScanner_new, command_parser(command_template, fn_args))

Accepted(command_template, fn_args) == command(command_template, fn_args) = {}

\* the arguments of a function written for the template: one for each
\* argument of the template, of the type `types` gives its name
fn_args_for(command_template, types) ==
    LET InTemplate(a) ==
            \E i \in 1..Len(command_args(command_template)) :
                /\ command_args(command_template)[i].kind = "Argument"
                /\ key(command_args(command_template)[i]) = a.arg
    IN  SelectSeq(types, InTemplate)

\* ------------------------------------------------------------------------
\* The generated handler function (chatbot-macro lib.rs, meta.rs, token.rs;
\* chatbot-lib command/mod.rs, command/from_argument.rs)
\* ------------------------------------------------------------------------

Digits == {"0", "1", "2", "3", "4", "5", "6", "7", "8", "9"}

\* <u32 as FromStr>::from_str is Ok: digits, after an optional plus sign
IsNumber(arg) ==
    LET digits == IF starts_with(arg, "+") THEN Tail(arg) ELSE arg
    IN  digits # <<>> /\ \A i \in 1..Len(digits) : digits[i] \in Digits

\* <T as FromArgument>::from_argument(arg) is Ok, for the types of the model:
\* "str" is &str, "u32" is u32
from_argument(ty, arg) == ty = "str" \/ (ty = "u32" /\ IsNumber(arg))

\* next_argument: the CommandError, or "Ok"
next_argument(ty, arg) ==
    IF arg = None THEN "ArgumentMissing"
    ELSE IF from_argument(ty, arg) THEN "Ok"
    ELSE "NamedArgumentParsing"

\* an optional argument that is treated as a required one
next_optional_argument_strict(ty, arg) == next_argument(ty, arg)

\* next_optional_argument_anyhow: a missing argument is Ok(None)
next_optional_argument(ty, arg) ==
    IF next_argument(ty, arg) = "ArgumentMissing" THEN "Ok" ELSE next_argument(ty, arg)

\* <T as FromCommandRequest>::from_command_request(request) is Ok, for the
\* types of the model: "Sender" cannot fail, "State" needs a value of its type
\* in the context of the request
from_command_request(ty, request) == ty = "Sender" \/ (ty = "State" /\ request.state)

\* the function arguments that are no argument of the template
IsExtracted(arg, command_template) ==
    \A i \in 1..Len(command_args(command_template)) :
        key(command_args(command_template)[i]) # arg.arg

\* #argument_parsers: some function argument cannot be taken from the request
argument_parsers_fail(command_template, fn_args, request) ==
    \E i \in 1..Len(fn_args) :
        /\ IsExtracted(fn_args[i], command_template)
        /\ ~from_command_request(fn_args[i].ty, request)

\* token.rs next(arguments, direction, take_all)
token_next(it, direction, take_all) ==
    IF take_all THEN next_rest(it)
    ELSE IF direction = "Forwards" THEN next(it)
    ELSE next_back(it)

\* the code of one token (CommandPatternToken::into_token_stream), run on the
\* iterator: the iterator afterwards, the CommandError or "Ok", what the token
\* bound, and (history) the text the iterator gave it
run_token(token, fn_args, it) ==
    LET pattern == token.pattern
        got == IF pattern.kind = "TakeAll" THEN next_rest(it)
               ELSE token_next(it, token.direction, is_taking_all(pattern))
        arg == got[2]
        ty == IdentOf(pattern, fn_args).ty
        kind ==
            IF got[1].panicked THEN "Panic"
            ELSE IF pattern.kind = "Command"
            THEN (IF arg = None \/ arg # pattern.name THEN "CommandMismatch" ELSE "Ok")
            ELSE IF pattern.kind = "Subcommand"
            THEN (IF arg = None \/ arg # pattern.name THEN "SubcommandMismatch" ELSE "Ok")
            ELSE IF pattern.kind = "TakeAll" THEN "Ok"
            ELSE IF pattern.optional THEN next_optional_argument(ty, arg)
            ELSE next_argument(ty, arg)
    IN  [it |-> got[1],
         kind |-> kind,
         named |-> IF kind = "NamedArgumentParsing" THEN pattern.name ELSE None,
         bound |-> IF pattern.kind = "Argument" /\ kind = "Ok"
                   THEN <<[arg |-> pattern.name, val |-> arg]>>
                   ELSE <<>>,
         took |-> IF kind = "Ok" THEN <<[pattern |-> pattern, text |-> arg]>> ELSE <<>>]

\* #(#command_parser)*: the tokens one after the other, up to the first error
RECURSIVE run_tokens(_, _, _)
run_tokens(tokens, fn_args, it) ==
    IF tokens = <<>>
    THEN [it |-> it, kind |-> "Ok", named |-> None, bound |-> <<>>, took |-> <<>>]
    ELSE LET first == run_token(Head(tokens), fn_args, it)
             rest == run_tokens(Tail(tokens), fn_args, first.it)
         IN  IF first.kind # "Ok" THEN first
             ELSE [rest EXCEPT !.bound = first.bound \o rest.bound,
                               !.took = first.took \o rest.took]

\* a check that lets every input through
to_empty_check_skip(it) == "Ok"

\* to_empty_check: if (iter.next_rest().is_some()) return Err(ArgumentsLeftOver)
to_empty_check(it) ==
    IF next_rest(it)[1].panicked THEN "Panic"
    ELSE IF next_rest(it)[2] # None THEN "ArgumentsLeftOver"
    ELSE "Ok"

\* what the function of the handler does once it is called: it answers with a
\* text, with nothing, or (result = true) with an error of its own
function_call(h) ==
    IF h.body = "fail" THEN "RequestError" ELSE "Ok"

\* Response::new(text)
Response_new(text) == [some |-> TRUE, text |-> text, reply |-> FALSE, command |-> FALSE]

\* Response::none()
Response_none == [some |-> FALSE, text |-> <<>>, reply |-> FALSE, command |-> FALSE]

\* Response::as_command
as_command(r) == [r EXCEPT !.command = TRUE]

\* IntoResponse::into_response of what the function returned
into_response(h) == IF h.body = "reply" THEN Response_new(h.answer) ELSE Response_none

\* the result of the generated function, from whether the extraction from the
\* request failed, the outcome of the tokens and the outcome of to_empty_check
command_result(h, request, failed, parsed, check) ==
    [kind |-> IF failed THEN "RequestError"
              ELSE IF parsed.kind # "Ok" THEN parsed.kind
              ELSE IF check # "Ok" THEN check
              ELSE function_call(h),
     parsed |-> IF failed THEN "NotRun" ELSE parsed.kind,
     named |-> IF failed THEN None ELSE parsed.named,
     called |-> ~failed /\ parsed.kind = "Ok" /\ check = "Ok",
     bound |-> IF ~failed /\ parsed.kind = "Ok" /\ check = "Ok" THEN parsed.bound ELSE <<>>,
     took |-> IF failed THEN <<>> ELSE parsed.took,
     it |-> IF failed THEN CommandArguments_from(request.command) ELSE parsed.it,
     response |-> IF ~failed /\ parsed.kind = "Ok" /\ check = "Ok"
                     /\ function_call(h) = "Ok"
                  THEN into_response(h) ELSE Response_none]

\* the tokens have run: to_empty_check on the iterator they left
command_checked(h, request, failed, parsed) ==
    command_result(h, request, failed, parsed, to_empty_check(parsed.it))

\* command_X(request), the generated function: the outcome ("Ok", a
\* CommandError or "Panic"), the outcome of the tokens alone, whether the
\* function of the handler was called, what its arguments were bound to, what
\* the tokens took, the iterator the tokens left, and the response
command_fn(h, request) ==
    command_checked(h, request,
                    argument_parsers_fail(h.pattern, h.fn_args, request),
                    run_tokens(command_parser(h.pattern, h.fn_args), h.fn_args,
                               CommandArguments_from(request.command)))

\* CommandError::is_argument_error
is_argument_error(e) ==
    e \in {"ArgumentMissing", "ArgumentParsing", "ArgumentsLeftOver", "NamedArgumentParsing"}

\* CommandError::is_subcommand_mismatch
is_subcommand_mismatch(e) == e = "SubcommandMismatch"

\* ------------------------------------------------------------------------
\* FindSharedSyntax (command/subcommand.rs)
\* ------------------------------------------------------------------------

\* Option::None of the accumulator: no template was contributed
NoSyntax == [some |-> FALSE, prefix |-> CommandArguments_from(<<>>), choice |-> <<>>]

\* FindSharedSyntax::new
FindSharedSyntax_new(command_template) ==
    [some |-> TRUE, prefix |-> CommandArguments_from(command_template), choice |-> <<>>]

\* the loop of FindSharedSyntax::append: prefix and command are walked word by word
RECURSIVE append_loop(_, _, _)
append_loop(self, prefix, command_template) ==
    LET next_prefix == next(prefix)
        next_command == next(command_template)
        pushed == IF next_command[2] # None THEN <<next_command[2]>> ELSE <<>>
    IN  IF next_prefix[2] = None
        THEN [self EXCEPT !.choice = @ \o pushed]
        ELSE IF next_prefix[2] # next_command[2]
        THEN [self EXCEPT !.prefix = next_back(consumed_begin(next_prefix[1]))[1],
                          !.choice = <<next_prefix[2]>> \o pushed]
        ELSE append_loop(self, next_prefix[1], next_command[1])

\* an append that leaves the accumulator as it is
append_keep(self, command_template) == self

\* FindSharedSyntax::append
append(self, command_template) ==
    append_loop(self, self.prefix, CommandArguments_from(command_template))

\* Itertools::join
RECURSIVE join(_, _)
join(words, sep) ==
    IF words = <<>> THEN <<>>
    ELSE IF Len(words) = 1 THEN words[1]
    ELSE words[1] \o sep \o join(Tail(words), sep)

\* ToString for FindSharedSyntax
to_string(self) ==
    IF self.choice = <<>> THEN as_str(self.prefix)
    ELSE as_str(self.prefix) \o <<" ">> \o join(self.choice, <<"|">>)

\* UserArgument::from(&User) and its Display: '@' and the display name, or
\* the username if the user has none
UserArgument(user) ==
    <<"@">> \o (IF user.display_name # None THEN user.display_name ELSE user.username)

\* format!("{} {}", UserArgument::from(request.sender()), syntax)
syntax_reply(request, syntax) == UserArgument(request.sender) \o <<" ">> \o syntax

\* ------------------------------------------------------------------------
\* ChatBot and the generated CommandProcessor (chat_bot.rs; chatbot-macro
\* lib.rs `commands`)
\* ------------------------------------------------------------------------

\* Option::None of a user id
NoId == "none"

\* User::new
User(username, display_name, user_id) ==
    [username |-> username, display_name |-> display_name, user_id |-> user_id]

\* a comparison by username alone
User_eq_username(self, other) == self.username = other.username

\* impl PartialEq for User
User_eq(self, other) ==
    IF self.user_id # NoId /\ other.user_id # NoId
    THEN self.user_id = other.user_id
    ELSE self.username = other.username

\* str::trim_start
trim_start(text) == Slice(text, find_word(text), Len(text))

\* TryFrom<&Privmsg> for Command is Ok: the text starts with '!' after its
\* leading whitespace
IsCommand(data) == starts_with(trim_start(data), "!")

\* CommandRequest::new(command, sender, channel, bot, &context); `state` says
\* whether the container of the context holds the value State<T> asks for
CommandRequest(msg, cb) ==
    [command |-> trim_start(msg.data), sender |-> msg.sender, bot |-> cb.bot,
     state |-> cb.container]

\* a responder that lets every text through
Sendable_any(r) == r.some

\* the text a responder lets through: not blank and, unless the response is a
\* command, not starting with '/' or '.'
Sendable(r) ==
    /\ r.some
    /\ r.command \/ ~starts_with(trim_start(r.text), "/")
    /\ r.command \/ ~starts_with(trim_start(r.text), ".")
    /\ r.text # <<>> /\ trim(r.text) # <<>>

\* MessageResponder::respond: the sink afterwards; `origin` says which code
\* built the response
respond(out, r, from) ==
    IF Sendable(r)
    THEN Append(out, [text |-> r.text, command |-> r.command, origin |-> from])
    ELSE out

\* Option::None of the response of process()
NoResponse == [some |-> FALSE, text |-> <<>>, reply |-> FALSE, command |-> FALSE]

\* the state of a ChatBot that handles no message
BotIdle ==
    /\ hpc = "new"
    /\ message = [data |-> <<>>, sender |-> User(<<>>, None, NoId), id |-> None]
    /\ position = 0
    /\ shared_syntax = NoSyntax
    /\ response = NoResponse
    /\ origin = "none"
    /\ sink = <<>>
    /\ tried = <<>>
    /\ processed = FALSE

\* ChatBot::new(connector, user_config).with_command_processor(processor); the
\* identity of the bot is the one the connection reports, or the configured name
ChatBot_new(processor, identity) ==
    /\ commands = processor
    /\ chat_bot = [bot |-> identity, container |-> FALSE, ignore_self |-> TRUE,
                   filter |-> "none"]
    /\ BotIdle

\* ChatBot::process_self
process_self ==
    /\ hpc = "new"
    /\ chat_bot.ignore_self
    /\ chat_bot' = [chat_bot EXCEPT !.ignore_self = FALSE]
    /\ UNCHANGED <<commands, hpc, message, position, shared_syntax, response, origin,
                   sink, tried, processed>>
    /\ UNCHANGED <<cvars, pvars, hvars, macrovars, callvars, lvars>>

\* ChatBot::filter(predicate)
filter(predicate) ==
    /\ hpc = "new"
    /\ chat_bot.filter = "none"
    /\ chat_bot' = [chat_bot EXCEPT !.filter = predicate]
    /\ UNCHANGED <<commands, hpc, message, position, shared_syntax, response, origin,
                   sink, tried, processed>>
    /\ UNCHANGED <<cvars, pvars, hvars, macrovars, callvars, lvars>>

\* ChatBot::with_state(state)
with_state ==
    /\ hpc = "new"
    /\ ~chat_bot.container
    /\ chat_bot' = [chat_bot EXCEPT !.container = TRUE]
    /\ UNCHANGED <<commands, hpc, message, position, shared_syntax, response, origin,
                   sink, tried, processed>>
    /\ UNCHANGED <<cvars, pvars, hvars, macrovars, callvars, lvars>>

\* run() hands a Privmsg to MessageHandler::handle
handle(msg) ==
    /\ hpc = "new"
    /\ hpc' = "filter"
    /\ message' = msg
    /\ UNCHANGED <<commands, chat_bot, position, shared_syntax, response, origin,
                   sink, tried, processed>>
    /\ UNCHANGED <<cvars, pvars, hvars, macrovars, callvars, lvars>>

\* the condition under which handle drops a command of the bot itself
IgnoresSelf(cb, msg) == cb.ignore_self /\ User_eq(msg.sender, cb.bot)

\* handle: Command::try_from(message), the ignore_self test, and the call of
\* command_processor.process(&request)
handle_command ==
    /\ hpc = "command"
    /\ IF IsCommand(message.data) /\ ~IgnoresSelf(chat_bot, message)
       THEN /\ hpc' = "process"
            /\ position' = 1
            /\ shared_syntax' = NoSyntax
            /\ processed' = TRUE
       ELSE /\ hpc' = "done"
            /\ UNCHANGED <<position, shared_syntax, processed>>
    /\ UNCHANGED <<commands, chat_bot, message, response, origin, sink, tried>>
    /\ UNCHANGED <<cvars, pvars, hvars, macrovars, callvars, lvars>>

\* a block that takes every outcome of the handler for a match
Matched_any(r) == TRUE

\* one command of fn process (the block generated for each path of commands!):
\* a handler that matched
Matched(r) == r.kind = "Ok"

\* a generated block that answers with the template whatever the error is
ShowsSyntax_any(h, r) == h.show_syntax

\* a generated block that never answers with the template of a handler
ShowsSyntax_never(h, r) == FALSE

\* a handler with show_syntax that failed on its arguments answers at once
\* with its own template
ShowsSyntax(h, r) == h.show_syntax /\ is_argument_error(r.kind)

\* a block that folds no template into shared_syntax
Contributes_never(h, r) == FALSE

\* a handler with show_syntax whose subcommand did not match is folded into
\* shared_syntax
Contributes(h, r) ==
    h.show_syntax /\ ~is_argument_error(r.kind) /\ is_subcommand_mismatch(r.kind)

\* a contribution that starts the accumulator anew
contribute_new(syntax, command_template) == FindSharedSyntax_new(command_template)

\* if let Some(s) = &mut shared_syntax { s.append(..) } else { .. new(..) }
contribute(syntax, command_template) ==
    IF syntax.some THEN append(syntax, command_template)
    ELSE FindSharedSyntax_new(command_template)

\* the block generated for one path of commands!, on the result r of the
\* handler h: return its response, return its template, or go on to the next
process_block(h, request, r) ==
    /\ tried' = Append(tried, [handler |-> position, kind |-> r.kind,
                               called |-> r.called, bound |-> r.bound])
    /\ IF r.kind = "Panic"
       THEN /\ hpc' = "panicked"
            /\ UNCHANGED <<position, shared_syntax, response, origin>>
       ELSE IF Matched(r)
       THEN /\ hpc' = "respond"
            /\ response' = r.response
            /\ origin' = "handler"
            /\ UNCHANGED <<position, shared_syntax>>
       ELSE IF ShowsSyntax(h, r)
       THEN /\ hpc' = "respond"
            /\ response' = Response_new(syntax_reply(request, h.pattern))
            /\ origin' = "argument_error"
            /\ UNCHANGED <<position, shared_syntax>>
       ELSE /\ position' = position + 1
            /\ shared_syntax' = IF Contributes(h, r)
                                THEN contribute(shared_syntax, h.pattern)
                                ELSE shared_syntax
            /\ UNCHANGED <<hpc, response, origin>>

\* process: the command at position is run on the request
process_command ==
    /\ hpc = "process"
    /\ position <= Len(commands)
    /\ \E r \in {command_fn(commands[position], CommandRequest(message, chat_bot))} :
           process_block(commands[position], CommandRequest(message, chat_bot), r)
    /\ UNCHANGED <<commands, chat_bot, message, sink, processed>>
    /\ UNCHANGED <<cvars, pvars, hvars, macrovars, callvars, lvars>>

\* process: behind the last command, the shared syntax is the response, if
\* there is one; without a response handle is done
process_end ==
    /\ hpc = "process"
    /\ position > Len(commands)
    /\ IF shared_syntax.some
       THEN /\ hpc' = "respond"
            /\ response' = Response_new(
                   syntax_reply(CommandRequest(message, chat_bot), to_string(shared_syntax)))
            /\ origin' = "shared_syntax"
       ELSE /\ hpc' = "done"
            /\ UNCHANGED <<response, origin>>
    /\ UNCHANGED <<commands, chat_bot, message, position, shared_syntax, sink, tried,
                   processed>>
    /\ UNCHANGED <<cvars, pvars, hvars, macrovars, callvars, lvars>>

\* handle: responder.respond(response) for the Some(response) of process
handle_respond ==
    /\ hpc = "respond"
    /\ hpc' = "done"
    /\ sink' = respond(sink, response, origin)
    /\ UNCHANGED <<commands, chat_bot, message, position, shared_syntax, response,
                   origin, tried, processed>>
    /\ UNCHANGED <<cvars, pvars, hvars, macrovars, callvars, lvars>>

\* ------------------------------------------------------------------------
\* Inputs
\* ------------------------------------------------------------------------

\* the words templates are built from: one of each kind of token
TemplateWords ==
    {<<"!", "c">>,
     <<"e", "n", "d">>,
     <<".", ".">>,
     <<"<", "n", ">">>,
     <<"[", "o", "]">>,
     <<"<", "r", "e", "s", "t", ".", ".", ">">>,
     <<"[", "a", "l", "l", ".", ".", "]">>}

\* a function that has an argument for every argument of those words
ArgTypes ==
    <<[arg |-> <<"n">>, ty |-> "u32"],
      [arg |-> <<"o">>, ty |-> "str"],
      [arg |-> <<"r", "e", "s", "t">>, ty |-> "str"],
      [arg |-> <<"a", "l", "l">>, ty |-> "str"]>>

\* the same function with a number for its optional argument
NumberTypes ==
    <<[arg |-> <<"n">>, ty |-> "u32"],
      [arg |-> <<"o">>, ty |-> "u32"],
      [arg |-> <<"r", "e", "s", "t">>, ty |-> "str"],
      [arg |-> <<"a", "l", "l">>, ty |-> "str"]>>

\* the sequences of 1..n elements of S
SeqUpTo(S, n) == UNION {[1..k -> S] : k \in 1..n}

\* the templates: up to MaxWords words, separated by one space
Templates == {join(ws, <<" ">>) : ws \in SeqUpTo(TemplateWords, MaxWords)}

\* the words of a message
InputWords == {<<"!", "c">>, <<"a">>, <<"e", "n", "d">>, <<"5">>}

\* the texts of the model: up to MaxInputWords words separated by one space, the
\* same with more whitespace around the words, and the inputs of the examples
Texts ==
    {join(ws, <<" ">>) : ws \in SeqUpTo(InputWords, MaxInputWords)}
        \cup {<<" ">> \o join(ws, <<" ", " ">>) \o <<" ">> :
                  ws \in SeqUpTo(InputWords, MaxInputWords)}
        \cup {<<>>,
              <<"!", "c", " ", "a", " ", "b", " ", "e", "n", "d">>,
              <<"!", "c", " ", "a", " ", "b", " ", "o", "t", "h", "e", "r">>}

\* ------------------------------------------------------------------------
\* The macro and a generated function on their own
\* ------------------------------------------------------------------------

\* the macro was not run
NotExpanded == [done |-> FALSE, tokens |-> <<>>, errors |-> {}]

MacroIdle ==
    /\ attr = <<>>
    /\ item = <<>>
    /\ expansion = NotExpanded

\* a template and a function are given to #[command]
MacroInit ==
    /\ attr \in Templates
    /\ item \in {<<>>, fn_args_for(attr, ArgTypes)}
    /\ expansion = NotExpanded

\* #[command(attr)] expands
expand ==
    /\ ~expansion.done
    /\ attr # <<>>
    /\ expansion' = [done |-> TRUE,
                     tokens |-> command_parser(attr, item),
                     errors |-> command(attr, item)]
    /\ UNCHANGED <<attr, item>>
    /\ UNCHANGED <<cvars, pvars, hvars, callvars, botvars, lvars>>

MacroNext == expand

\* the function was not called
NotCalled ==
    [kind |-> "NotCalled", parsed |-> "NotRun", named |-> None, called |-> FALSE,
     bound |-> <<>>,
     took |-> <<>>, it |-> CommandArguments_from(<<>>), response |-> Response_none]

NoHandler ==
    [pattern |-> <<>>, show_syntax |-> FALSE, fn_args |-> <<>>, body |-> "silent",
     answer |-> <<>>]

NoRequest ==
    [command |-> <<>>, sender |-> User(<<>>, None, NoId), bot |-> User(<<>>, None, NoId),
     state |-> FALSE]

CallIdle ==
    /\ call_handler = NoHandler
    /\ call_request = NoRequest
    /\ call_result = NotCalled

\* the handlers whose template starts with the command and compiles, on a
\* function with an argument for each argument of the template, the optional
\* one a text or a number
CallHandlers ==
    {[pattern |-> t, show_syntax |-> FALSE, fn_args |-> fn_args_for(t, types),
      body |-> "reply", answer |-> <<"o", "k">>] :
         t \in {u \in Templates : starts_with(u, "!") /\ Accepted(u, fn_args_for(u, ArgTypes))},
         types \in {ArgTypes, NumberTypes}}

\* the templates and the inputs of the end-to-end examples
SongAdd ==
    <<"!", "s", "o", "n", "g", " ", "a", "d", "d", " ", "<", "c", "o", "m",
      "m", "a", "n", "d", ">", " ", "<", "u", "r", "l", ">", " ", "<", "c",
      "o", "o", "l", "d", "o", "w", "n", ".", ".", ">">>

SongRm ==
    <<"!", "s", "o", "n", "g", " ", "r", "m", " ", "<", "c", "o", "m", "m",
      "a", "n", "d", ">">>

SongAddText ==
    <<"!", "s", "o", "n", "g", " ", "a", "d", "d", " ", "!", "w", "a", "l",
      "k", " ", "h", "t", "t", "p", "s", ":", "/", "/", "e", "x", "a", "m",
      "p", "l", "e", ".", "c", "o", "m", "/", " ", "2", "0", "m">>

SongRmText ==
    <<"!", "s", "o", "n", "g", " ", "r", "m", " ", "!", "w", "a", "l", "k",
      " ", "e", "x", "t", "r", "a">>

\* the arguments of the functions of the examples, all of them texts
SongTypes ==
    <<[arg |-> <<"c", "o", "m", "m", "a", "n", "d">>, ty |-> "str"],
      [arg |-> <<"u", "r", "l">>, ty |-> "str"],
      [arg |-> <<"c", "o", "o", "l", "d", "o", "w", "n">>, ty |-> "str"]>>

SongHandlers ==
    {[pattern |-> t, show_syntax |-> FALSE, fn_args |-> fn_args_for(t, SongTypes),
      body |-> "reply", answer |-> <<"o", "k">>] : t \in {SongAdd, SongRm}}

SongTexts == {SongAddText, SongRmText}

\* the same handlers on a function that takes a State<T> as well
StateHandlers ==
    {[h EXCEPT !.fn_args = Append(@, [arg |-> <<"s">>, ty |-> "State"])] :
         h \in CallHandlers}

\* texts that differ from a template's literals in the case of a letter only
CaseTexts ==
    {<<"!", "C", " ", "e", "n", "d">>, <<"!", "c", " ", "E", "n", "d">>}

\* a generated function and a request with some text, with and without the
\* value of State<T> in its context
CallInit ==
    /\ call_handler \in CallHandlers \cup SongHandlers \cup StateHandlers
    /\ call_request \in
           {[command |-> t, sender |-> User(<<"u">>, None, NoId),
             bot |-> User(<<"b">>, None, NoId), state |-> context] :
                t \in Texts \cup SongTexts \cup CaseTexts, context \in BOOLEAN}
    /\ call_result = NotCalled

\* command_X(request) runs
call ==
    /\ call_result = NotCalled
    /\ call_handler # NoHandler
    /\ call_result' = command_fn(call_handler, call_request)
    /\ UNCHANGED <<call_handler, call_request>>
    /\ UNCHANGED <<cvars, pvars, hvars, macrovars, botvars, lvars>>

CallNext == call

\* ------------------------------------------------------------------------
\* The handlers, identities and messages of the bot
\* ------------------------------------------------------------------------

\* "!c add <n>", with n: u32
HandlerAdd(show_syntax) ==
    [pattern |-> <<"!", "c", " ", "a", "d", "d", " ", "<", "n", ">">>,
     show_syntax |-> show_syntax,
     fn_args |-> <<[arg |-> <<"n">>, ty |-> "u32"]>>,
     body |-> "reply", answer |-> <<"a", "d", "d", "e", "d">>]

\* "!c rm <x>", with x: &str
HandlerRm(show_syntax) ==
    [pattern |-> <<"!", "c", " ", "r", "m", " ", "<", "x", ">">>,
     show_syntax |-> show_syntax,
     fn_args |-> <<[arg |-> <<"x">>, ty |-> "str"]>>,
     body |-> "reply", answer |-> <<"r", "e", "m", "o", "v", "e", "d">>]

\* "!c <x..>", with x: &str
HandlerAny ==
    [pattern |-> <<"!", "c", " ", "<", "x", ".", ".", ">">>,
     show_syntax |-> FALSE,
     fn_args |-> <<[arg |-> <<"x">>, ty |-> "str"]>>,
     body |-> "reply", answer |-> <<"a", "n", "y">>]

\* "!c rm <x..> <y>", with x: &str and y: &str
HandlerTail ==
    [pattern |-> <<"!", "c", " ", "r", "m", " ", "<", "x", ".", ".", ">", " ", "<", "y", ">">>,
     show_syntax |-> FALSE,
     fn_args |-> <<[arg |-> <<"x">>, ty |-> "str"], [arg |-> <<"y">>, ty |-> "str"]>>,
     body |-> "reply", answer |-> <<"t", "a", "i", "l">>]

\* "!d" on a function that takes a State<T>, and answers with nothing or fails
HandlerState(body) ==
    [pattern |-> <<"!", "d">>,
     show_syntax |-> FALSE,
     fn_args |-> <<[arg |-> <<"s">>, ty |-> "State"]>>,
     body |-> body, answer |-> <<>>]

BotHandlers ==
    {HandlerAdd(TRUE), HandlerAdd(FALSE), HandlerRm(TRUE), HandlerRm(FALSE),
     HandlerAny, HandlerTail, HandlerState("silent"), HandlerState("fail")}

\* the command processors: up to MaxCommands handlers, in some order
Processors == SeqUpTo(BotHandlers, MaxCommands)

\* the identity of the bot: with the id the connection reports (Identity::Full),
\* or the name alone (Identity::Basic, UserConfig)
Identities == {User(<<"b">>, None, "1"), User(<<"b">>, None, NoId)}

\* a chatter with a display name
Chatter == User(<<"u">>, <<"U">>, "2")

\* senders that share the id, the name, or nothing with the bot
Senders ==
    {Chatter,
     User(<<"u">>, None, NoId),
     User(<<"b">>, None, "1"),
     User(<<"x">>, None, "1"),
     User(<<"b">>, None, "2"),
     User(<<"b">>, None, NoId)}

\* the texts chatters send
Chats ==
    {<<"!", "c", " ", "a", "d", "d", " ", "5">>,
     <<"!", "c", " ", "a", "d", "d", " ", "x">>,
     <<"!", "c", " ", "a", "d", "d">>,
     <<"!", "c", " ", "a", "d", "d", " ", "5", " ", "6">>,
     <<"!", "c", " ", "f", "o", "o">>,
     <<"!", "c", " ", "r", "m", " ", "a">>,
     <<" ", "!", "c", " ", "r", "m", " ", "a", " ", "b">>,
     <<"!", "c">>,
     <<"!", "d">>,
     <<"h", "i">>}

Privmsg(data, sender, id) == [data |-> data, sender |-> sender, id |-> id]

\* the messages: every text from the chatter, one text from every sender, and
\* one message without an id tag
Messages ==
    {Privmsg(d, Chatter, <<"m">>) : d \in Chats}
        \cup {Privmsg(<<"!", "c", " ", "r", "m", " ", "a">>, s, <<"m">>) : s \in Senders}
        \cup {Privmsg(<<"!", "c", " ", "r", "m", " ", "a">>, Chatter, None)}

\* the filter predicates: one that lets every message through, one that rejects
\* every message, one that answers the message and lets it through
Predicates == {"accept", "reject", "warn"}

BotStill == ChatBot_new(<<>>, User(<<>>, None, NoId))

BotInit == \E processor \in Processors, identity \in Identities :
               ChatBot_new(processor, identity)

\* ------------------------------------------------------------------------
\* CommandArguments on its own (chatbot-lib command/split.rs)
\* ------------------------------------------------------------------------

NoCalls == <<>>

SplitIdle ==
    /\ iter = CommandArguments_from(<<>>)
    /\ iter_calls = NoCalls

\* CommandArguments::from(text) for a text of the model
SplitInit ==
    /\ iter \in {CommandArguments_from(t) : t \in Texts}
    /\ iter_calls = NoCalls

\* iter.next()
iter_next ==
    /\ Len(iter_calls) < MaxSteps
    /\ iter' = next(iter)[1]
    /\ iter_calls' = Append(iter_calls, [name |-> "next", got |-> next(iter)[2]])
    /\ UNCHANGED <<cvars, pvars, hvars, macrovars, callvars, botvars, syntaxvars,
                   chattervars, respondvars>>

\* iter.next_back()
iter_next_back ==
    /\ Len(iter_calls) < MaxSteps
    /\ iter' = next_back(iter)[1]
    /\ iter_calls' = Append(iter_calls, [name |-> "next_back", got |-> next_back(iter)[2]])
    /\ UNCHANGED <<cvars, pvars, hvars, macrovars, callvars, botvars, syntaxvars,
                   chattervars, respondvars>>

SplitNext == iter_next \/ iter_next_back

\* ------------------------------------------------------------------------
\* FindSharedSyntax on its own (chatbot-lib command/subcommand.rs)
\* ------------------------------------------------------------------------

\* the words the templates given to the accumulator are made of
SyntaxWords == {<<"!", "c">>, <<"a">>, <<"b">>}

\* the templates given to the accumulator: up to MaxSyntaxWords words, some
\* with more whitespace, and the two of the library's test
SyntaxTemplates ==
    {join(ws, <<" ">>) : ws \in SeqUpTo(SyntaxWords, MaxSyntaxWords)}
        \cup {<<" ">> \o join(ws, <<" ", " ">>) : ws \in SeqUpTo(SyntaxWords, 2)}
        \cup {SongAdd, SongRm}

SyntaxIdle ==
    /\ find = NoSyntax
    /\ appended = <<>>
    /\ find_before = NoSyntax

\* FindSharedSyntax::new(command) for the first template, append(command) for
\* every other one
find_append(command_template) ==
    /\ Len(appended) < MaxAppends
    /\ find' = contribute(find, command_template)
    /\ appended' = Append(appended, command_template)
    /\ find_before' = find
    /\ UNCHANGED <<cvars, pvars, hvars, macrovars, callvars, botvars, splitvars,
                   chattervars, respondvars>>

SyntaxNext == \E command_template \in SyntaxTemplates : find_append(command_template)

\* ------------------------------------------------------------------------
\* The chatters registry (chatbot-lib state/chatters.rs, user/mod.rs)
\* ------------------------------------------------------------------------

\* the tasks that hold a clone of the ChannelChatters
NumNoticers == 2
Noticers == 1..NumNoticers

\* the messages the handler is given in one behaviour
MaxNotices == 3

\* Option::Some
Some(x) == <<x>>

\* HashMap::get(key).cloned()
map_get(map, at) == IF at \in DOMAIN map THEN Some(map[at]) ELSE None

\* HashMap::remove(key)
map_remove(map, at) == [x \in DOMAIN map \ {at} |-> map[x]]

\* AllChatters::default()
AllChatters_default ==
    [usernames |-> EmptyMap, display_names |-> EmptyMap, user_ids |-> EmptyMap,
     users |-> <<>>]

\* AllChatters::index: by the id if the chatter has one, else by the username
AllChatters_index(self, chatter) ==
    IF chatter.user_id # NoId
    THEN map_get(self.user_ids, chatter.user_id)
    ELSE map_get(self.usernames, chatter.username)

\* AllChatters::index_from_userargument: usernames first, then display names
AllChatters_index_from_userargument(self, arg) ==
    IF map_get(self.usernames, arg) # None
    THEN map_get(self.usernames, arg)
    ELSE map_get(self.display_names, arg)

\* the record at an index of the list (the indexes of the code start at 0)
user_at(self, at) == self.users[at + 1]

\* the body of needs_update_or_insert for the index found
needs_update_at(self, chatter, found) ==
    IF found = None THEN None
    ELSE IF \/ user_at(self, found[1]).username # chatter.username
            \/ user_at(self, found[1]).display_name # chatter.display_name
    THEN None
    ELSE found

\* AllChatters::needs_update_or_insert: the index of a record that is up to
\* date, None for a chatter to insert or to update
AllChatters_needs_update_or_insert(self, chatter) ==
    needs_update_at(self, chatter, AllChatters_index(self, chatter))

\* AllChatters::insert: a new record at the end of the list, and its keys put
\* into the three indexes (an entry another record had under a key is replaced)
AllChatters_insert(self, chatter) ==
    [users |-> Append(self.users, chatter),
     usernames |-> map_insert(self.usernames, chatter.username, Len(self.users)),
     display_names |->
         IF chatter.display_name # None
         THEN map_insert(self.display_names, chatter.display_name, Len(self.users))
         ELSE self.display_names,
     user_ids |->
         IF chatter.user_id # NoId
         THEN map_insert(self.user_ids, chatter.user_id, Len(self.users))
         ELSE self.user_ids]

\* an insert whatever the list holds
AllChatters_insert_always(self, chatter) == AllChatters_insert(self, chatter)

\* OwnedUser::update_username: the previous name if it changed
update_username(self, username) ==
    IF self.username # username THEN Some(self.username) ELSE None

\* OwnedUser::update_display_name: the previous display name (itself an Option)
\* if it changed
update_display_name(self, display_name) ==
    IF self.display_name # display_name THEN Some(self.display_name) ELSE None

\* OwnedUser::set_user_id: the id, if the record had none and is given one
set_user_id(self, user_id) ==
    IF self.user_id = NoId /\ user_id # NoId THEN Some(user_id) ELSE None

\* the record after update_username, update_display_name and set_user_id
updated_user(self, chatter) ==
    [username |-> chatter.username,
     display_name |-> chatter.display_name,
     user_id |-> IF set_user_id(self, chatter.user_id) # None
                 THEN chatter.user_id ELSE self.user_id]

\* the new name is put in and the previous one stays
rekey_usernames_keep(usernames, previous, chatter, at) ==
    map_insert(usernames, chatter.username, at)

\* update_or_insert, a changed username: the previous key is removed and the
\* new one inserted
rekey_usernames(usernames, previous, chatter, at) ==
    IF previous = None THEN usernames
    ELSE map_insert(map_remove(usernames, previous[1]), chatter.username, at)

\* the new display name is put in and the previous one stays
rekey_display_names_keep(display_names, previous, chatter, at) ==
    IF chatter.display_name # None
    THEN map_insert(display_names, chatter.display_name, at)
    ELSE display_names

\* the display names without the previous one of a record, if it had one
without_previous(display_names, previous) ==
    IF previous # None THEN map_remove(display_names, previous) ELSE display_names

\* update_or_insert, a changed display name: the previous key is removed if
\* there was one and the new one inserted if there is one
rekey_display_names(display_names, previous, chatter, at) ==
    IF previous = None THEN display_names
    ELSE IF chatter.display_name # None
    THEN map_insert(without_previous(display_names, previous[1]),
                    chatter.display_name, at)
    ELSE without_previous(display_names, previous[1])

\* update_or_insert, the branch of a record found at an index
update_at(self, chatter, at) ==
    [users |-> [self.users EXCEPT ![at + 1] = updated_user(@, chatter)],
     usernames |->
         rekey_usernames(self.usernames,
                         update_username(user_at(self, at), chatter.username),
                         chatter, at),
     display_names |->
         rekey_display_names(self.display_names,
                             update_display_name(user_at(self, at),
                                                 chatter.display_name),
                             chatter, at),
     user_ids |->
         IF set_user_id(user_at(self, at), chatter.user_id) # None
         THEN map_insert(self.user_ids, chatter.user_id, at)
         ELSE self.user_ids]

\* AllChatters::update_or_insert: the index is looked up again, the record
\* found is updated and the indexes re-keyed, a chatter not found is inserted
AllChatters_update_or_insert(self, chatter) ==
    IF AllChatters_index(self, chatter) # None
    THEN update_at(self, chatter, AllChatters_index(self, chatter)[1])
    ELSE AllChatters_insert(self, chatter)

\* ChannelChatters::get: the record a user argument names, or None
ChannelChatters_get(arg) ==
    IF AllChatters_index_from_userargument(all_chatters, arg) = None THEN None
    ELSE Some(user_at(all_chatters,
                      AllChatters_index_from_userargument(all_chatters, arg)[1]))

\* Uuid::try_parse: the canonical form of a text that spells a UUID
Uuid_try_parse(text) ==
    IF text \in {<<"U", "1">>, <<"u", "1">>} THEN Some(<<"u", "1">>) ELSE None

\* MessageId::from(&str)
MessageId_from(text) ==
    IF Uuid_try_parse(text) # None
    THEN [kind |-> "Uuid", id |-> Uuid_try_parse(text)[1]]
    ELSE [kind |-> "String", id |-> text]

\* the UserEntry notice_chatter builds (last_chatted is Instant::now())
user_entry(chatter, data, message_id) ==
    [username |-> chatter.username, display_name |-> chatter.display_name,
     last_message |-> data, last_message_id |-> MessageId_from(message_id)]

\* the chatters a message may come from: a user whose display name is the
\* username, the same user with another display name and with another
\* username, a second user with the first username or the first display name,
\* and a chatter without an id
NoticedSenders ==
    {User(<<"a">>, <<"a">>, "1"),
     User(<<"a">>, <<"B">>, "1"),
     User(<<"b">>, <<"C">>, "1"),
     User(<<"a">>, None, "2"),
     User(<<"b">>, <<"B">>, "2"),
     User(<<"a">>, None, NoId)}

\* the texts and ids of the messages
NoticedMessages ==
    {[data |-> <<"h", "i">>, id |-> <<"m", "1">>],
     [data |-> <<"y", "o">>, id |-> <<"U", "1">>]}

\* the Privmsg events: every sender with every message in the channel whose
\* room id is known, and one message without a room id (Channel::from(&Privmsg)
\* is the channel name without '#', no display name, the room id of the tag)
NoticedEvents ==
    {[channel |-> User(<<"x">>, None, "7"), sender |-> s, privmsg |-> m] :
         s \in NoticedSenders, m \in NoticedMessages}
    \cup {[channel |-> User(<<"x">>, None, NoId),
           sender |-> User(<<"a">>, <<"a">>, "1"),
           privmsg |-> [data |-> <<"h", "i">>, id |-> <<"m", "1">>]]}

\* the record the list has under the id of a chatter, if it has one
known(self, chatter) ==
    IF chatter.user_id # NoId /\ chatter.user_id \in DOMAIN self.user_ids
    THEN Some(user_at(self, self.user_ids[chatter.user_id]))
    ELSE None

\* a task that is not inside notice_chatter
NotNoticing ==
    [pc |-> "idle", channel |-> User(None, None, NoId),
     sender |-> User(None, None, NoId), data |-> None, message_id |-> None,
     event_id |-> None, alone |-> FALSE, before |-> None]

\* no moderation clear so far
NotCleared ==
    [kind |-> "none", channel |-> User(None, None, NoId), user_id |-> NoId,
     name |-> None, message_id |-> None, before |-> EmptyMap, after |-> EmptyMap,
     names |-> EmptyMap, index_before |-> AllChatters_default,
     index_after |-> AllChatters_default, count |-> 0]

\* ChannelChatters::new()
ChattersIdle ==
    /\ all_chatters = AllChatters_default
    /\ all_channels = AllChatters_default
    /\ chatters = EmptyMap
    /\ channels = EmptyMap
    /\ noticing = [k \in Noticers |-> NotNoticing]
    /\ noticed = 0
    /\ cleared = NotCleared

\* MessageHandler::handle, up to its call of notice_chatter: the channel and
\* the sender are made from the message and given with its text and the id
\* literal of the call. The task remembers the id of the event, whether another
\* task was inside notice_chatter while it ran, and the record the identity
\* list had for the id of the sender.
handle_notice(k, channel, sender, privmsg) ==
    /\ noticing[k].pc = "idle"
    /\ noticed < MaxNotices
    /\ noticed' = noticed + 1
    /\ noticing' =
           [j \in Noticers |->
               IF j = k
               THEN [pc |-> "all_chatters_read", channel |-> channel,
                     sender |-> sender, data |-> privmsg.data,
                     message_id |-> <<"i", "d">>, event_id |-> privmsg.id,
                     alone |-> \A i \in Noticers : noticing[i].pc \in {"idle", "done"},
                     before |-> known(all_chatters, sender)]
               ELSE [noticing[j] EXCEPT !.alone = FALSE]]
    /\ UNCHANGED <<all_chatters, all_channels, chatters, channels, cleared>>
    /\ UNCHANGED <<cvars, pvars, hvars, macrovars, callvars, botvars, splitvars,
                   syntaxvars, respondvars>>

\* notice_chatter of the RwLock<AllChatters>, under the read lock
all_chatters_read(k) ==
    /\ noticing[k].pc = "all_chatters_read"
    /\ noticing' =
           [noticing EXCEPT ![k].pc =
               IF AllChatters_needs_update_or_insert(all_chatters, noticing[k].sender)
                      = None
               THEN "all_chatters_write" ELSE "all_channels_read"]
    /\ UNCHANGED <<all_chatters, all_channels, chatters, channels, noticed, cleared>>
    /\ UNCHANGED <<cvars, pvars, hvars, macrovars, callvars, botvars, splitvars,
                   syntaxvars, respondvars>>

\* the read lock was dropped: update_or_insert under the write lock
all_chatters_write(k) ==
    /\ noticing[k].pc = "all_chatters_write"
    /\ all_chatters' = AllChatters_update_or_insert(all_chatters, noticing[k].sender)
    /\ noticing' = [noticing EXCEPT ![k].pc = "all_channels_read"]
    /\ UNCHANGED <<all_channels, chatters, channels, noticed, cleared>>
    /\ UNCHANGED <<cvars, pvars, hvars, macrovars, callvars, botvars, splitvars,
                   syntaxvars, respondvars>>

\* notice_chatter of the RwLock<AllChannels>, under the read lock
all_channels_read(k) ==
    /\ noticing[k].pc = "all_channels_read"
    /\ noticing' =
           [noticing EXCEPT ![k].pc =
               IF AllChatters_needs_update_or_insert(all_channels, noticing[k].channel)
                      = None
               THEN "all_channels_write" ELSE "chatters_get"]
    /\ UNCHANGED <<all_chatters, all_channels, chatters, channels, noticed, cleared>>
    /\ UNCHANGED <<cvars, pvars, hvars, macrovars, callvars, botvars, splitvars,
                   syntaxvars, respondvars>>

\* the read lock was dropped: update_or_insert under the write lock
all_channels_write(k) ==
    /\ noticing[k].pc = "all_channels_write"
    /\ all_channels' = AllChatters_update_or_insert(all_channels, noticing[k].channel)
    /\ noticing' = [noticing EXCEPT ![k].pc = "chatters_get"]
    /\ UNCHANGED <<all_chatters, chatters, channels, noticed, cleared>>
    /\ UNCHANGED <<cvars, pvars, hvars, macrovars, callvars, botvars, splitvars,
                   syntaxvars, respondvars>>

\* CHashMap::upsert on the map of a channel: the entry of the user is made,
\* or its fields are set to those of the message
upsert(entries, user_id, entry) == map_insert(entries, user_id, entry)

\* notice_chatter, the presence part: nothing without the ids of the channel
\* and of the sender; with them self.chatters.get(channel_id), and under its
\* guard the upsert into the map of the channel; a channel without a map is
\* left to the next step
chatters_get(k) ==
    /\ noticing[k].pc = "chatters_get"
    /\ IF noticing[k].channel.user_id = NoId \/ noticing[k].sender.user_id = NoId
       THEN /\ noticing' = [noticing EXCEPT ![k].pc = "done"]
            /\ UNCHANGED chatters
       ELSE IF noticing[k].channel.user_id \in DOMAIN chatters
       THEN /\ chatters' =
                   [chatters EXCEPT ![noticing[k].channel.user_id] =
                       upsert(@, noticing[k].sender.user_id,
                              user_entry(noticing[k].sender, noticing[k].data,
                                         noticing[k].message_id))]
            /\ noticing' = [noticing EXCEPT ![k].pc = "done"]
       ELSE /\ noticing' = [noticing EXCEPT ![k].pc = "chatters_insert"]
            /\ UNCHANGED chatters
    /\ UNCHANGED <<all_chatters, all_channels, channels, noticed, cleared>>
    /\ UNCHANGED <<cvars, pvars, hvars, macrovars, callvars, botvars, splitvars,
                   syntaxvars, respondvars>>

\* the guard was dropped: the name of the channel is put into self.channels
\* and a new map with the one entry into self.chatters, in place of a map
\* another task may have put there since
chatters_insert(k) ==
    /\ noticing[k].pc = "chatters_insert"
    /\ channels' = map_insert(channels, noticing[k].channel.username,
                              noticing[k].channel.user_id)
    /\ chatters' =
           map_insert(chatters, noticing[k].channel.user_id,
                      map_insert(EmptyMap, noticing[k].sender.user_id,
                                 user_entry(noticing[k].sender, noticing[k].data,
                                            noticing[k].message_id)))
    /\ noticing' = [noticing EXCEPT ![k].pc = "done"]
    /\ UNCHANGED <<all_chatters, all_channels, noticed, cleared>>
    /\ UNCHANGED <<cvars, pvars, hvars, macrovars, callvars, botvars, splitvars,
                   syntaxvars, respondvars>>

\* notice_chatter has returned and the task takes its next message
notice_return(k) ==
    /\ noticing[k].pc = "done"
    /\ noticing' = [noticing EXCEPT ![k] = NotNoticing]
    /\ UNCHANGED <<all_chatters, all_channels, chatters, channels, noticed, cleared>>
    /\ UNCHANGED <<cvars, pvars, hvars, macrovars, callvars, botvars, splitvars,
                   syntaxvars, respondvars>>

\* the moderation clears of one behaviour
MaxClears == 1

\* the channel id a clear works on: the id of the channel or, without one,
\* the id self.channels has for its name
resolve_channel_by_id(names, channel) ==
    IF channel.user_id # NoId THEN Some(channel.user_id) ELSE None

resolve_channel(names, channel) ==
    IF channel.user_id # NoId THEN Some(channel.user_id)
    ELSE map_get(names, channel.username)

\* a clear that takes the entry of the id and the entries of the name
clear_chat_entries_both(entries, user_id, name) ==
    [u \in {x \in DOMAIN entries : x # user_id /\ entries[x].username # name}
        |-> entries[u]]

\* clear_chat, the inner fn clear on the map of one channel: remove(&user_id),
\* or retain the entries of other usernames, or clear()
clear_chat_entries(entries, user_id, name) ==
    IF user_id # NoId THEN map_remove(entries, user_id)
    ELSE IF name # None
    THEN [u \in {x \in DOMAIN entries : entries[x].username # name} |-> entries[u]]
    ELSE EmptyMap

\* a clear that leaves every entry
clear_message_entries_none(entries, message_id, login) == entries

\* clear_message, the inner fn clear on the map of one channel: retain the
\* entries that have neither the message id nor the login, or clear()
clear_message_entries(entries, message_id, login) ==
    IF message_id # None \/ login # None
    THEN [u \in {x \in DOMAIN entries :
                    /\ \/ message_id = None
                       \/ entries[x].last_message_id # MessageId_from(message_id)
                    /\ \/ login = None
                       \/ entries[x].username # login}
            |-> entries[u]]
    ELSE EmptyMap

\* ChannelChatters::clear_chat: self.chatters afterwards
ChannelChatters_clear_chat(map, found, user_id, name) ==
    IF found = None THEN EmptyMap
    ELSE IF found[1] \in DOMAIN map
    THEN [map EXCEPT ![found[1]] = clear_chat_entries(@, user_id, name)]
    ELSE map

\* ChannelChatters::clear_message: self.chatters afterwards
ChannelChatters_clear_message(map, found, message_id, login) ==
    IF found = None THEN EmptyMap
    ELSE IF found[1] \in DOMAIN map
    THEN [map EXCEPT ![found[1]] = clear_message_entries(@, message_id, login)]
    ELSE map

\* the history of a clear: its arguments and the maps before and after it
Cleared(kind, channel, user_id, name, message_id) ==
    [kind |-> kind, channel |-> channel, user_id |-> user_id, name |-> name,
     message_id |-> message_id, before |-> chatters, after |-> chatters',
     names |-> channels, index_before |-> all_chatters,
     index_after |-> all_chatters', count |-> cleared.count + 1]

\* handle: the filter step.  Without a message id or a filter nothing happens;
\* the predicate gets the responder and may write; for a rejected message the
\* presence entries of its id and of its login are cleared from the channel
\* notice_chatter was given, the command '.delete <id>' is written and handle
\* returns
handle_filter ==
    /\ hpc = "filter"
    /\ LET called == message.id # None /\ chat_bot.filter # "none"
           warned == IF called /\ chat_bot.filter = "warn"
                     THEN respond(sink, Response_new(<<"n", "o">>), "filter")
                     ELSE sink
           rejected == called /\ chat_bot.filter = "reject"
       IN  /\ sink' = IF rejected
                      THEN respond(warned,
                                   as_command(Response_new(
                                       <<".", "d", "e", "l", "e", "t", "e", " ">>
                                           \o message.id)),
                                   "delete")
                      ELSE warned
           /\ hpc' = IF rejected THEN "done" ELSE "command"
           /\ chatters' = IF rejected
                          THEN ChannelChatters_clear_message(
                                   chatters, resolve_channel(channels, noticing[1].channel),
                                   message.id, message.sender.username)
                          ELSE chatters
           /\ UNCHANGED <<all_chatters, all_channels, channels, noticing, noticed>>
           /\ cleared' = IF rejected
                         THEN Cleared("filter", noticing[1].channel, NoId,
                                      message.sender.username, message.id)
                         ELSE cleared
    /\ UNCHANGED <<commands, chat_bot, message, position, shared_syntax, response, origin,
                   tried, processed>>
    /\ UNCHANGED <<cvars, pvars, hvars, macrovars, callvars, splitvars, syntaxvars,
                   respondvars>>

BotNext ==
    \/ process_self
    \/ \E predicate \in Predicates : filter(predicate)
    \/ with_state
    \/ \E msg \in Messages : handle(msg)
    \/ handle_filter
    \/ handle_command
    \/ process_command
    \/ process_end
    \/ handle_respond

\* MessageHandler::clear_chat: the event loop gives a ClearChat to the handler
\* while it handles no other event
clear_chat(channel, user_id, name) ==
    /\ noticing[1].pc = "idle"
    /\ cleared.count < MaxClears
    /\ chatters' = ChannelChatters_clear_chat(chatters, resolve_channel(channels, channel),
                                              user_id, name)
    /\ UNCHANGED <<all_chatters, all_channels, channels, noticing, noticed>>
    /\ cleared' = Cleared("clear_chat", channel, user_id, name, None)
    /\ UNCHANGED <<cvars, pvars, hvars, macrovars, callvars, botvars, splitvars,
                   syntaxvars, respondvars>>

\* MessageHandler::clear_msg: the event loop gives a ClearMsg to the handler
clear_msg(channel, message_id, login) ==
    /\ noticing[1].pc = "idle"
    /\ cleared.count < MaxClears
    /\ chatters' = ChannelChatters_clear_message(
                       chatters, resolve_channel(channels, channel), message_id, login)
    /\ UNCHANGED <<all_chatters, all_channels, channels, noticing, noticed>>
    /\ cleared' = Cleared("clear_message", channel, NoId, login, message_id)
    /\ UNCHANGED <<cvars, pvars, hvars, macrovars, callvars, botvars, splitvars,
                   syntaxvars, respondvars>>

\* the channels of the events of the loop: two rooms with their ids, the first
\* room without its id, and a room no message came from
LoopChannels ==
    {User(<<"x">>, None, "7"), User(<<"y">>, None, "8"), User(<<"x">>, None, NoId),
     User(<<"z">>, None, NoId)}

\* the Privmsg events of the loop: two users that share a username and a third
\* one, in the two rooms, and a message without a room id
LoopEvents ==
    {[channel |-> c, sender |-> s,
      privmsg |-> [data |-> <<"h", "i">>, id |-> <<"m", "1">>]] :
         c \in {User(<<"x">>, None, "7"), User(<<"y">>, None, "8")},
         s \in {User(<<"a">>, None, "1"), User(<<"a">>, None, "2"),
                User(<<"b">>, None, "3")}}
    \cup {[channel |-> User(<<"x">>, None, NoId), sender |-> User(<<"a">>, None, "1"),
           privmsg |-> [data |-> <<"h", "i">>, id |-> <<"m", "1">>]]}

\* the event loop of run(): one handler, one event at a time
loop_privmsg ==
    \E e \in LoopEvents : handle_notice(1, e.channel, e.sender, e.privmsg)

loop_clear_chat ==
    \E channel \in LoopChannels, user_id \in {NoId, "1", "3"},
       name \in {None, <<"a">>, <<"b">>} : clear_chat(channel, user_id, name)

loop_clear_msg ==
    \E channel \in LoopChannels, message_id \in {None, <<"m", "1">>, <<"i", "d">>},
       login \in {None, <<"a">>} : clear_msg(channel, message_id, login)

ModerationNext ==
    \/ loop_privmsg
    \/ all_chatters_read(1)
    \/ all_chatters_write(1)
    \/ all_channels_read(1)
    \/ all_channels_write(1)
    \/ chatters_get(1)
    \/ chatters_insert(1)
    \/ notice_return(1)
    \/ loop_clear_chat
    \/ loop_clear_msg

\* the Privmsg events of a bot with a filter: two users that share a login
\* and a third one, in the room x with and without its room id, a command and
\* a chat line, with and without the id tag
FilterEvents ==
    {[channel |-> c, sender |-> s, privmsg |-> [data |-> d, id |-> i]] :
         c \in {User(<<"x">>, None, "7"), User(<<"x">>, None, NoId)},
         s \in {User(<<"a">>, None, "1"), User(<<"a">>, None, "2"),
                User(<<"b">>, None, "3")},
         d \in {<<"!", "c", " ", "r", "m", " ", "a">>, <<"h", "i">>},
         i \in {<<"m", "1">>, None}}

\* the command processors of that bot
FilterProcessors == {<<HandlerRm(TRUE)>>, <<HandlerAdd(TRUE)>>}

\* run() hands a Privmsg to MessageHandler::handle while no other is handled
filter_privmsg ==
    /\ hpc = "new"
    /\ \E e \in FilterEvents : handle_notice(1, e.channel, e.sender, e.privmsg)

\* handle: notice_chatter has returned, the MessageResponder of the message is
\* built and the filter step is next
handle_noticed ==
    /\ hpc = "new"
    /\ noticing[1].pc = "done"
    /\ hpc' = "filter"
    /\ message' = Privmsg(noticing[1].data, noticing[1].sender, noticing[1].event_id)
    /\ UNCHANGED <<commands, chat_bot, position, shared_syntax, response, origin,
                   sink, tried, processed>>
    /\ UNCHANGED <<cvars, pvars, hvars, macrovars, callvars, lvars>>

\* handle has returned and the loop of run() takes the next event; the lines
\* written for the message have left the sink
handle_return ==
    /\ hpc = "done"
    /\ noticing[1].pc = "done"
    /\ hpc' = "new"
    /\ message' = [data |-> <<>>, sender |-> User(<<>>, None, NoId), id |-> None]
    /\ position' = 0
    /\ shared_syntax' = NoSyntax
    /\ response' = NoResponse
    /\ origin' = "none"
    /\ sink' = <<>>
    /\ tried' = <<>>
    /\ processed' = FALSE
    /\ noticing' = [noticing EXCEPT ![1] = NotNoticing]
    /\ UNCHANGED <<commands, chat_bot>>
    /\ UNCHANGED <<all_chatters, all_channels, chatters, channels, noticed, cleared>>
    /\ UNCHANGED <<cvars, pvars, hvars, macrovars, callvars, splitvars, syntaxvars,
                   respondvars>>

FilterNext ==
    \/ filter_privmsg
    \/ all_chatters_read(1)
    \/ all_chatters_write(1)
    \/ all_channels_read(1)
    \/ all_channels_write(1)
    \/ chatters_get(1)
    \/ chatters_insert(1)
    \/ handle_noticed
    \/ handle_filter
    \/ handle_command
    \/ process_command
    \/ process_end
    \/ handle_respond
    \/ handle_return

handle_notice_any ==
    \E k \in Noticers, e \in NoticedEvents :
        handle_notice(k, e.channel, e.sender, e.privmsg)

all_chatters_read_any == \E k \in Noticers : all_chatters_read(k)
all_chatters_write_any == \E k \in Noticers : all_chatters_write(k)
all_channels_read_any == \E k \in Noticers : all_channels_read(k)
all_channels_write_any == \E k \in Noticers : all_channels_write(k)
chatters_get_any == \E k \in Noticers : chatters_get(k)
chatters_insert_any == \E k \in Noticers : chatters_insert(k)
notice_return_any == \E k \in Noticers : notice_return(k)

ChattersNext ==
    \/ handle_notice_any
    \/ all_chatters_read_any
    \/ all_chatters_write_any
    \/ all_channels_read_any
    \/ all_channels_write_any
    \/ chatters_get_any
    \/ chatters_insert_any
    \/ notice_return_any

\* ------------------------------------------------------------------------
\* MessageResponder on its own (chat_bot.rs)
\* ------------------------------------------------------------------------

\* the responses given to one responder
MaxResponds == 2

\* the texts of the responses: empty, blank, plain, and with '/' or '.' at the
\* start, behind whitespace, or inside
ResponseTexts ==
    {<<>>, <<" ">>, <<"o", "k">>, <<"/", "m", "e">>, <<" ", "/", "m", "e">>,
     <<".", "x">>, <<" ", ".", "x">>, <<"a", ".", "b">>, <<"a", "/">>}

\* Response::as_reply
as_reply(r) == [r EXCEPT !.reply = TRUE]

\* Response::none(), and Response::new(text) with as_reply and as_command
Responses ==
    {Response_none}
        \cup {Response_new(t) : t \in ResponseTexts}
        \cup {as_reply(Response_new(t)) : t \in ResponseTexts}
        \cup {as_command(Response_new(t)) : t \in ResponseTexts}
        \cup {as_command(as_reply(Response_new(t))) : t \in ResponseTexts}

\* no response was given to a responder
RespondIdle == given = <<>>

\* responder.respond(&response) on a MessageResponder
responder_respond(r) ==
    /\ Len(given) < MaxResponds
    /\ given' = Append(given, r)
    /\ sink' = respond(sink, r, "responder")
    /\ UNCHANGED <<commands, chat_bot, hpc, message, position, shared_syntax, response,
                   origin, tried, processed>>
    /\ UNCHANGED <<cvars, pvars, hvars, macrovars, callvars, splitvars, syntaxvars,
                   chattervars>>

RespondNext == \E r \in Responses : responder_respond(r)

\* everything of chatbot-lib that is exercised on its own is at rest
LibStill == SplitIdle /\ SyntaxIdle /\ ChattersIdle /\ RespondIdle

\* ------------------------------------------------------------------------
\* Specifications
\* ------------------------------------------------------------------------

\* the container alone: the persisted values stay as constructed
InitContainer ==
    ContainerInit /\ PersistedStart("a", Absent) /\ MacroIdle /\ CallIdle /\ BotStill /\ LibStill

SpecContainer == InitContainer /\ [][ContainerNext]_vars

\* the persisted values alone: nobody calls the container
InitPersisted == PersistedInit /\ ContainerInit /\ MacroIdle /\ CallIdle /\ BotStill /\ LibStill

SpecPersisted == InitPersisted /\ [][PersistedNext]_vars

\* the same while the process runs on, the runtime polls every task that can
\* go on, and every disk operation completes, with a result or with an error
SpecPersistedFair ==
    InitPersisted /\ [][PersistedRunNext]_vars /\ \A t \in Tasks : WF_vars(TaskStep(t))

\* the macro alone
InitMacro ==
    MacroInit /\ CallIdle /\ BotStill /\ ContainerInit /\ PersistedStart("a", Absent) /\ LibStill

SpecMacro == InitMacro /\ [][MacroNext]_vars

\* a generated function alone
InitCall ==
    CallInit /\ MacroIdle /\ BotStill /\ ContainerInit /\ PersistedStart("a", Absent) /\ LibStill

SpecCall == InitCall /\ [][CallNext]_vars

\* a CommandArguments alone
InitSplit ==
    SplitInit /\ SyntaxIdle /\ ChattersIdle /\ RespondIdle /\ MacroIdle /\ CallIdle /\ BotStill /\ ContainerInit
        /\ PersistedStart("a", Absent)

SpecSplit == InitSplit /\ [][SplitNext]_vars

\* a FindSharedSyntax alone
InitSyntax ==
    SyntaxIdle /\ SplitIdle /\ ChattersIdle /\ RespondIdle /\ MacroIdle /\ CallIdle /\ BotStill /\ ContainerInit
        /\ PersistedStart("a", Absent)

SpecSyntax == InitSyntax /\ [][SyntaxNext]_vars

\* the chatters registry alone: tasks notice the chatters of their messages
InitChatters ==
    ChattersIdle /\ SplitIdle /\ SyntaxIdle /\ RespondIdle /\ MacroIdle /\ CallIdle /\ BotStill
        /\ ContainerInit /\ PersistedStart("a", Absent)

SpecChatters == InitChatters /\ [][ChattersNext]_vars

\* the event loop on the chatters registry: messages and moderation clears,
\* one after the other
InitModeration ==
    ChattersIdle /\ SplitIdle /\ SyntaxIdle /\ RespondIdle /\ MacroIdle /\ CallIdle /\ BotStill
        /\ ContainerInit /\ PersistedStart("a", Absent)

SpecModeration == InitModeration /\ [][ModerationNext]_vars

\* a bot with a filter on the chatters registry: messages are noticed,
\* filtered and processed, one after the other
InitFilter ==
    /\ \E processor \in FilterProcessors, identity \in Identities,
          predicate \in Predicates :
           /\ commands = processor
           /\ chat_bot = [bot |-> identity, container |-> FALSE, ignore_self |-> TRUE,
                          filter |-> predicate]
           /\ BotIdle
    /\ ChattersIdle /\ SplitIdle /\ SyntaxIdle /\ RespondIdle /\ MacroIdle /\ CallIdle
    /\ ContainerInit /\ PersistedStart("a", Absent)

SpecFilter == InitFilter /\ [][FilterNext]_vars

\* a MessageResponder alone: responses are given to it
InitRespond ==
    ChattersIdle /\ SplitIdle /\ SyntaxIdle /\ RespondIdle /\ MacroIdle /\ CallIdle
        /\ BotStill /\ ContainerInit /\ PersistedStart("a", Absent)

SpecRespond == InitRespond /\ [][RespondNext]_vars

\* the bot: one message is handled
InitBot ==
    BotInit /\ MacroIdle /\ CallIdle /\ ContainerInit /\ PersistedStart("a", Absent) /\ LibStill

SpecBot == InitBot /\ [][BotNext]_vars

\* ------------------------------------------------------------------------
\* Claims about the ChannelContainer
\* ------------------------------------------------------------------------

\* how often the template was invoked with key k
TemplateCalls(k) == Cardinality({i \in DOMAIN template_log : template_log[i] = k})

\* C1: under any interleaving of concurrent first-time get / get_arc calls of one
\* key, the template is invoked at most once (exactly once, once a call returned)
\* for that key.
C1_InitializerOncePerKey ==
    \A k \in Keys : TemplateCalls(k) <= 1

\* the slot built by the first template invocation for key k
FirstSlot(k) ==
    CHOOSE i \in DOMAIN template_log :
        /\ template_log[i] = k
        /\ \A j \in 1..(i - 1) : template_log[j] # k

\* C10: as long as no two calls overlapped, the template ran at most once per key
\* and with that key, every returned handle is the slot the first access of its
\* key created, the map still holds that slot, and distinct keys have distinct slots.
C10_SequentialAccessReusesSlot ==
    ~overlapped =>
        /\ \A k \in Keys : TemplateCalls(k) <= 1
        /\ \A k \in DOMAIN container :
              /\ template_log[container[k]] = k
              /\ container[k] = FirstSlot(k)
        /\ \A t \in Callers : cret[t] # NoSlot =>
              /\ ckey[t] \in DOMAIN container
              /\ cret[t] = FirstSlot(ckey[t])
              /\ cret[t] = container[ckey[t]]
        /\ \A t, u \in Callers :
              (cret[t] # NoSlot /\ cret[u] # NoSlot /\ ckey[t] # ckey[u])
                  => cret[t] # cret[u]

\* two callers, one after the other, got the same slot of one key while the
\* container holds a second key as well
C10_Witness ==
    /\ ~overlapped
    /\ naccess >= 3
    /\ Cardinality(DOMAIN container) = 2
    /\ cret[1] # NoSlot
    /\ cret[2] = cret[1]
    /\ ckey[1] = ckey[2]

\* ------------------------------------------------------------------------
\* Claims about Persisted<T>
\* ------------------------------------------------------------------------

\* the task is between the acquire of the permit and its drop
Holding(t) == pc[t] \in {"rd_disk", "mu_disk", "st_open", "st_write", "st_rename", "mu_swap"}

Holders(c) == {t \in Tasks : Holding(t) /\ chan[t] = c}

\* the task's call was an update or a maybe_update that stored a value
Stored(t) == pc[t] = "done" /\ op[t] # "read" /\ ret[t][2] # NoValue

\* C2: the updates of one value since the process started form a chain: each
\* swapped in f(old) for the old value it returns, each old value is the new value
\* of the update before it, the value in memory is the new value of the last one,
\* and every finished update returned the (old, new) pair of its own link.
C2_NoLostUpdate ==
    /\ \A c \in Channels :
          /\ \A i \in DOMAIN chain[c] :
                /\ chain[c][i].new = Apply(chain[c][i].f, chain[c][i].old)
                /\ i > 1 => chain[c][i].old = chain[c][i - 1].new
          /\ chain[c] # <<>> => inner[c] = chain[c][Len(chain[c])].new
    /\ \A t \in Tasks : Stored(t) =>
          \E i \in DOMAIN chain[chan[t]] :
              chain[chan[t]][i] = [old |-> ret[t][1], new |-> ret[t][2], f |-> fn[t], by |-> t]

\* two updates that were in flight together have both returned, one built on the other
C2_Witness ==
    /\ Len(chain[active]) = 2
    /\ chain[active][1].by # chain[active][2].by
    /\ \A t \in Tasks : pc[t] = "done" /\ op[t] = "update"
    /\ inner[active] = Apply("add2", Apply("add2", chain[active][1].old))

C4_RoundTrip ==
    \A c \in Channels :
        (/\ restarted
         /\ prev[c].last # NoValue
         /\ prev[c].file_new = prev[c].last
         /\ ~cold_err[c]
         /\ first_read[c] \notin {Unset, Late})
            => first_read[c] = prev[c].last

C6_WriteFailureKeepsMemory ==
    \A t \in Tasks :
        /\ (pc[t] = "done" /\ op[t] # "read" /\ result[t] = "err") =>
              /\ ret[t][2] # NoValue
              /\ ret[t][2] = Apply(fn[t], ret[t][1])
              /\ left[t].inner = ret[t][2]
              /\ whook[t] = <<chan[t]>>
              /\ left[t].files.file = snap[t].file
        /\ result[t] # "err" => whook[t] = <<>>

\* the second update of a value failed to store: the file holds the first value,
\* the memory the second
C6_Witness ==
    \E t \in Tasks :
        /\ pc[t] = "done"
        /\ result[t] = "err"
        /\ whook[t] = <<chan[t]>>
        /\ written[chan[t]] # NoValue
        /\ left[t].files.file = File(Serialize(written[chan[t]]))
        /\ left[t].inner # written[chan[t]]

\* the closure of the task's maybe_update answers None for the value it was given
SaysNoChange(t) == op[t] = "maybe_update" /\ fn[t] = "inc_even" /\ value[t] % 2 = 1

\* C7: a maybe_update whose closure answers None returns (current, None), leaves
\* the value in memory and every file of the channel as they were, tells no hook
\* and holds no permit.
C7_NoChangeWritesNothing ==
    \A t \in Tasks :
        (pc[t] = "done" /\ SaysNoChange(t)) =>
            /\ ret[t] = <<value[t], NoValue>>
            /\ left[t].inner = value[t]
            /\ left[t].files = snap[t]
            /\ new_value[t] = NoValue
            /\ result[t] = "none"
            /\ whook[t] = <<>>
            /\ ~permit[t]
            /\ t \notin Holders(chan[t])

\* a maybe_update without change has returned for a value that has a file, and
\* the permit is free again
C7_Witness ==
    \E t \in Tasks :
        /\ pc[t] = "done"
        /\ SaysNoChange(t)
        /\ snap[t].file.exists
        /\ lock[chan[t]] = Permits

\* C8: a read called while the value is loaded never queues for the permit and
\* never holds it, and returns a value that was in memory during the call.
C8_LoadedReadNeverWaits ==
    \A t \in Tasks :
        (op[t] = "read" /\ loaded_at_call[t]) =>
            /\ pc[t] \in {"rd_load", "done"}
            /\ ~permit[t]
            /\ pc[t] = "done" => ret[t][1] \in seen[t]

\* a read of a loaded value has returned while an update of that value holds the
\* permit and writes its file
C8_Witness ==
    \E t, u \in Tasks :
        /\ pc[t] = "done"
        /\ op[t] = "read"
        /\ loaded_at_call[t]
        /\ chan[u] = chan[t]
        /\ pc[u] \in {"st_write", "st_rename"}
        /\ permit[u]
        /\ ret[t][1] = inner[chan[t]]

\* the cold load of the task found a file that parses
ColdParses(t) == ~cold[t].io /\ cold[t].file.exists /\ Parse(cold[t].file.data) # ParseError

\* the cold load of the task found no file
ColdMissing(t) == ~cold[t].io /\ ~cold[t].file.exists

\* C9: a cold load always produces a value: the parsed file if it is there and
\* parses, init(channel) without any hook if it is missing, else the value of
\* handle_read_error, told once with the channel; the value is published while the
\* permit is held, and a read returns it with the permit released.
C9_ColdLoadNeverFails ==
    \A t \in Tasks : cold[t].did =>
        /\ value[t] # NoValue
        /\ ColdParses(t) => (value[t] = Parse(cold[t].file.data) /\ rhook[t] = <<>>)
        /\ ColdMissing(t) => (value[t] = init(chan[t]) /\ rhook[t] = <<>>)
        /\ (~ColdParses(t) /\ ~ColdMissing(t)) =>
              (value[t] = handle_read_error(chan[t]) /\ rhook[t] = <<chan[t]>>)
        /\ Holding(t) => inner[chan[t]] = value[t]
        /\ (pc[t] = "done" /\ op[t] = "read") =>
              /\ ret[t][1] = value[t]
              /\ left[t].inner = value[t]
              /\ ~permit[t]

\* a read has returned the fall-back value for a file that is cut short
C9_Witness ==
    \E t \in Tasks :
        /\ pc[t] = "done"
        /\ op[t] = "read"
        /\ cold[t].did
        /\ cold[t].file = Corrupt
        /\ ~cold[t].io
        /\ rhook[t] = <<chan[t]>>
        /\ ret[t][1] = handle_read_error(chan[t])

\* ------------------------------------------------------------------------
\* Claims on the command processor and the message handler
\* ------------------------------------------------------------------------

\* the outcome of the handler that was run last
LastTried == tried[Len(tried)]

\* C11: process() runs the handlers in the order of registration, none left
\* out; a handler is run only after every handler before it was run and
\* failed, so no handler is run after one that matched; and a response that
\* comes from a handler is the response of the handler that was run last,
\* whose match succeeded.
C11_FirstMatchWins ==
    /\ \A k \in 1..Len(tried) : tried[k].handler = k
    /\ \A k \in 1..(Len(tried) - 1) : tried[k].kind # "Ok"
    /\ origin = "handler" =>
           /\ tried # <<>>
           /\ LastTried.kind = "Ok"
           /\ LastTried.called
           /\ response = into_response(commands[Len(tried)])

\* the second of two handlers matched after the first had failed, and its
\* answer was written
C11_Witness ==
    /\ hpc = "done"
    /\ Len(commands) = 2
    /\ Len(tried) = 2
    /\ tried[1].kind = "SubcommandMismatch"
    /\ tried[2].kind = "Ok"
    /\ origin = "handler"
    /\ Len(sink) = 1
    /\ sink[1].text = commands[2].answer

\* the errors a handler fails with on its arguments
ArgumentErrors ==
    {"ArgumentMissing", "ArgumentParsing", "NamedArgumentParsing", "ArgumentsLeftOver"}

\* process() went on behind the handler tried k-th: it is over only after the
\* next handler, if there is one, was run as well
WentOn(k) == (hpc # "process" /\ k < Len(commands)) => Len(tried) > k

\* C12 as stated: a handler that fails with ArgumentMissing, ArgumentParsing,
\* NamedArgumentParsing or ArgumentsLeftOver is skipped without a reply and
\* process() goes on with the next handler.
C12_ArgumentErrorSkipped ==
    \A k \in 1..Len(tried) :
        tried[k].kind \in ArgumentErrors =>
            /\ WentOn(k)
            /\ origin # "argument_error"

\* C12, amended: a handler without show_syntax that fails with one of these
\* errors is skipped without a reply and process() goes on with the next
\* handler; a handler with show_syntax that fails with one of them is the
\* last handler run, and process() returns '@<sender> <its template>'.
C12_ArgumentErrorSkippedUnlessShown ==
    \A k \in 1..Len(tried) :
        tried[k].kind \in ArgumentErrors =>
            IF commands[k].show_syntax
            THEN /\ k = Len(tried)
                 /\ hpc \in {"respond", "done"}
                 /\ origin = "argument_error"
                 /\ response = Response_new(
                        UserArgument(message.sender) \o <<" ">> \o commands[k].pattern)
            ELSE /\ WentOn(k)
                 /\ k = Len(tried) => origin \in {"none", "shared_syntax"}

\* a handler without show_syntax failed on its argument, and the handler
\* after it matched and answered
C12_Witness ==
    /\ hpc = "done"
    /\ Len(tried) = 2
    /\ tried[1].kind = "NamedArgumentParsing"
    /\ ~commands[1].show_syntax
    /\ tried[2].kind = "Ok"
    /\ Len(sink) = 1
    /\ sink[1].text = commands[2].answer

\* the handler tried k-th was registered with show_syntax and failed with
\* SubcommandMismatch
Contributed(k) == commands[k].show_syntax /\ tried[k].kind = "SubcommandMismatch"

\* the accumulator after the templates of the contributing handlers among the
\* first k handlers tried were given to it, in order
RECURSIVE Accumulated(_)
Accumulated(k) ==
    IF k = 0 THEN NoSyntax
    ELSE IF ~Contributed(k) THEN Accumulated(k - 1)
    ELSE IF Accumulated(k - 1).some
    THEN append(Accumulated(k - 1), commands[k].pattern)
    ELSE FindSharedSyntax_new(commands[k].pattern)

\* process() is over and no handler succeeded
NoneSucceeded ==
    /\ processed
    /\ hpc \in {"respond", "done"}
    /\ \A k \in 1..Len(tried) : tried[k].kind # "Ok"

\* '@<sender>', the common prefix of the accumulator and its alternatives
\* joined with '|'
Suggestion(acc) ==
    UserArgument(message.sender) \o <<" ">> \o as_str(acc.prefix)
        \o (IF acc.choice = <<>> THEN <<>> ELSE <<" ">> \o join(acc.choice, <<"|">>))

\* what C13 says process() returns
SuggestionReturned ==
    IF \E k \in 1..Len(tried) : Contributed(k)
    THEN response = Response_new(Suggestion(Accumulated(Len(tried))))
    ELSE response = NoResponse

\* C13 as stated: when no handler succeeds, the response is the suggestion of
\* the accumulator if a handler with show_syntax failed with
\* SubcommandMismatch, and there is no response otherwise.
C13_SyntaxSuggestion == NoneSucceeded => SuggestionReturned

\* a handler with show_syntax failed on its arguments
ShownArgumentError ==
    \E k \in 1..Len(tried) : commands[k].show_syntax /\ tried[k].kind \in ArgumentErrors

\* C13, amended: when no handler succeeds and no handler with show_syntax
\* failed with an argument error, the response is the suggestion of the
\* accumulator if a handler with show_syntax failed with SubcommandMismatch,
\* and there is no response otherwise.
C13_SyntaxSuggestionWithoutArgumentError ==
    (NoneSucceeded /\ ~ShownArgumentError) => SuggestionReturned

\* two handlers with show_syntax failed with SubcommandMismatch on '!c foo',
\* and '@U !c add|rm' was written
C13_Witness ==
    /\ hpc = "done"
    /\ Len(tried) = 2
    /\ Contributed(1)
    /\ Contributed(2)
    /\ sink = <<[text |-> <<"@", "U", " ", "!", "c", " ", "a", "d", "d", "|", "r", "m">>,
                 command |-> FALSE, origin |-> "shared_syntax"]>>

\* the written message w is the answer of a handler that matched
FromMatch(w) ==
    /\ tried # <<>>
    /\ LastTried.kind = "Ok"
    /\ w.text = commands[Len(tried)].answer

\* the written message w is the accumulated syntax suggestion
FromSuggestion(w) ==
    /\ NoneSucceeded
    /\ \E k \in 1..Len(tried) : Contributed(k)
    /\ w.text = Suggestion(Accumulated(Len(tried)))

\* the written message w is the template of a handler with show_syntax that
\* failed with an argument error
FromArgumentError(w) ==
    /\ tried # <<>>
    /\ commands[Len(tried)].show_syntax
    /\ LastTried.kind \in ArgumentErrors
    /\ w.text = UserArgument(message.sender) \o <<" ">> \o commands[Len(tried)].pattern

\* the written message w comes from the filter step: the filter's own answer,
\* or the command '.delete <id>' for a message the filter rejected
FromFilter(w) ==
    /\ message.id # None
    /\ \/ chat_bot.filter = "warn" /\ ~w.command
       \/ /\ chat_bot.filter = "reject"
          /\ w.command
          /\ w.text = <<".", "d", "e", "l", "e", "t", "e", " ">> \o message.id

\* C14 as stated: a text is written to the sink only if a handler matched or
\* the reply is the accumulated syntax suggestion.
C14_WritesOnlyOnMatchOrSuggestion ==
    \A i \in 1..Len(sink) : FromMatch(sink[i]) \/ FromSuggestion(sink[i])

\* C14, amended: a text is written to the sink only if a handler matched, or
\* the reply is the accumulated syntax suggestion or the template of a handler
\* with show_syntax that failed with an argument error, or the filter step
\* wrote it; the command processor writes at most one text for a message.
C14_WritesOnlyOnMatchSyntaxOrFilter ==
    /\ \A i \in 1..Len(sink) :
           \/ FromMatch(sink[i])
           \/ FromSuggestion(sink[i])
           \/ FromArgumentError(sink[i])
           \/ FromFilter(sink[i])
    /\ Cardinality({i \in 1..Len(sink) : ~FromFilter(sink[i])}) <= 1
    /\ ~processed => \A i \in 1..Len(sink) : FromFilter(sink[i])

\* a message nobody answers: every handler was run and failed with a command
\* or subcommand mismatch or a request error, none contributed, and handle
\* is done with nothing written
C14_Witness ==
    /\ hpc = "done"
    /\ processed
    /\ Len(commands) = 2
    /\ Len(tried) = 2
    /\ tried[1].kind = "SubcommandMismatch"
    /\ tried[2].kind = "RequestError"
    /\ sink = <<>>

\* the sender of the message is the bot: the same numeric id when both have
\* one, the same username otherwise
SentByBot ==
    IF message.sender.user_id # NoId /\ chat_bot.bot.user_id # NoId
    THEN message.sender.user_id = chat_bot.bot.user_id
    ELSE message.sender.username = chat_bot.bot.username

\* handle is behind the step that decides whether the message is processed
Decided == hpc \notin {"new", "filter", "command"}

\* the filter step ended handle
Rejected == message.id # None /\ chat_bot.filter = "reject"

\* C15: while ignore_self is on, as it is by default, a message of the bot
\* itself is never given to the command processor, no handler is run and no
\* response of the command processor is written; after process_self() such a
\* message is processed exactly when a message of any other sender is: when
\* it starts with '!' and the filter step let it through.
C15_SelfIgnored ==
    /\ (chat_bot.ignore_self /\ SentByBot) =>
           /\ ~processed
           /\ tried = <<>>
           /\ response = NoResponse
           /\ \A i \in 1..Len(sink) : FromFilter(sink[i])
    /\ (Decided /\ ~(chat_bot.ignore_self /\ SentByBot)) =>
           (processed <=> (~Rejected /\ IsCommand(message.data)))

\* a command whose sender has the id of the bot under another username was
\* dropped
C15_Witness ==
    /\ hpc = "done"
    /\ chat_bot.ignore_self
    /\ message.sender.user_id = chat_bot.bot.user_id
    /\ message.sender.user_id # NoId
    /\ message.sender.username # chat_bot.bot.username
    /\ IsCommand(message.data)
    /\ ~Rejected
    /\ ~processed
    /\ sink = <<>>

(***************************************************************************)
(* Claims on the generated function and the compilation of templates       *)
(***************************************************************************)

\* the text the token of a pattern took, None when it took nothing
TookBy(took, pattern) ==
    IF \E i \in 1..Len(took) : took[i].pattern = pattern
    THEN took[CHOOSE i \in 1..Len(took) : took[i].pattern = pattern].text
    ELSE None

\* the characters of the words of a text
NonSpace(text) == SelectSeq(text, LAMBDA c : ~is_whitespace(c))

\* the characters of the words the tokens took, in the order of the tokens in
\* the template
RECURSIVE CharsTaken(_, _)
CharsTaken(patterns, took) ==
    IF patterns = <<>> THEN <<>>
    ELSE NonSpace(TookBy(took, Head(patterns))) \o CharsTaken(Tail(patterns), took)

\* the words the tokens left in the iterator
WordsLeft(it) ==
    IF it.start <= it.end THEN split_whitespace(Slice(it.str, it.start, it.end))
    ELSE <<>>

\* C16: the function of the handler is called only if the tokens took every
\* word of the input: no word is left in the iterator, and the characters of
\* the words the tokens took, in template order, are the characters of the
\* words of the input. If every token matched and a word is left, the result
\* is ArgumentsLeftOver and the function is not called.
C16_AllOrNothing ==
    /\ call_result.called =>
           /\ WordsLeft(call_result.it) = <<>>
           /\ CharsTaken(command_args(call_handler.pattern), call_result.took)
                  = NonSpace(call_request.command)
    /\ (call_result.parsed = "Ok" /\ WordsLeft(call_result.it) # <<>>) =>
           /\ call_result.kind = "ArgumentsLeftOver"
           /\ ~call_result.called

\* every token of a template of two tokens matched and a word is left
C16_Witness ==
    /\ call_result.parsed = "Ok"
    /\ Len(call_result.took) = 2
    /\ WordsLeft(call_result.it) # <<>>
    /\ call_result.kind = "ArgumentsLeftOver"

\* the words of the template given to #[command]
TemplateWordsOf == split_whitespace(attr)

\* a word that is '..', '<name..>' or '[name..]'
TakesAll(word) == is_taking_all(CommandPattern_from(word))

\* a take-all-capable word of the template has a word behind it
TakeAllNotLast ==
    \E i \in 1..Len(TemplateWordsOf) :
        /\ TakesAll(TemplateWordsOf[i])
        /\ i < Len(TemplateWordsOf)

\* the template has two take-all-capable words that differ
TwoDifferentTakeAll ==
    \E i, j \in 1..Len(TemplateWordsOf) :
        /\ TakesAll(TemplateWordsOf[i])
        /\ TakesAll(TemplateWordsOf[j])
        /\ TemplateWordsOf[i] # TemplateWordsOf[j]

\* the tokens behind the first take-all-capable token of the template
Trailing ==
    LET args == command_args(attr)
    IN  {args[j] : j \in {k \in 1..Len(args) :
                             \E i \in 1..(k - 1) : is_taking_all(args[i])}}

\* C17: every template in which a take-all-capable token is followed by
\* another token is rejected when it is compiled.
C17_TakeAllLast ==
    (expansion.done /\ TakeAllNotLast) => expansion.errors # {}

\* the template has one take-all-capable word at most
OneTakeAllAtMost ==
    \A i, j \in 1..Len(TemplateWordsOf) :
        (TakesAll(TemplateWordsOf[i]) /\ TakesAll(TemplateWordsOf[j])) => i = j

\* C17, amended: a template in which a take-all-capable token is followed by
\* a different take-all-capable word is rejected when it is compiled ('Only
\* one .. allowed'); a template with a single take-all-capable word is never
\* rejected for the place of that word, and the tokens behind it are compiled
\* to take their words from the end of the input.
C17_OnlyDifferentTakeAllRejected ==
    expansion.done =>
        /\ TwoDifferentTakeAll => "Only one .. allowed" \in expansion.errors
        /\ OneTakeAllAtMost => "Only one .. allowed" \notin expansion.errors
        /\ \A i \in 1..Len(expansion.tokens) :
               expansion.tokens[i].pattern \in Trailing =>
                   expansion.tokens[i].direction = "Backwards"

\* a template of three tokens whose take-all-capable token is the second one
\* compiled without an error
C17_Witness ==
    /\ expansion.done
    /\ Len(expansion.tokens) = 3
    /\ TakesAll(TemplateWordsOf[2])
    /\ ~TakesAll(TemplateWordsOf[3])
    /\ expansion.errors = {}

\* a word that is '[name]' or '[name..]'
OptionalArgument(word) ==
    /\ CommandPattern_from(word).kind = "Argument"
    /\ CommandPattern_from(word).optional

\* a word that is a command, a subcommand or a required argument
NonOptional(word) ==
    \/ CommandPattern_from(word).kind \in {"Command", "Subcommand"}
    \/ /\ CommandPattern_from(word).kind = "Argument"
       /\ ~CommandPattern_from(word).optional

\* C18: every template in which, in template order, a non-optional token
\* comes after an optional argument is rejected when it is compiled.
C18_RequiredAfterOptionalRejected ==
    (/\ expansion.done
     /\ \E i, j \in 1..Len(TemplateWordsOf) :
            /\ i < j
            /\ OptionalArgument(TemplateWordsOf[i])
            /\ NonOptional(TemplateWordsOf[j]))
        => expansion.errors # {}

\* C19: every template with two or more take-all-capable words, different
\* or the same, is rejected when it is compiled.
C19_TwoTakeAllRejected ==
    (expansion.done /\ ~OneTakeAllAtMost) => expansion.errors # {}

\* the template of the handler is a command, a required take-all argument and
\* a subcommand, as '!c <rest..> end' is
CommandRestLiteral ==
    LET args == command_args(call_handler.pattern)
    IN  /\ Len(args) = 3
        /\ args[1].kind = "Command"
        /\ args[2].kind = "Argument" /\ args[2].take_all /\ ~args[2].optional
        /\ args[3].kind = "Subcommand"

\* C20: for a template with a token behind its take-all argument, the token
\* is matched against the last word of the input and the take-all argument
\* is bound to the words in between: a template like '!c <rest..> end'
\* succeeds on '!c a b end' with rest = 'a b' and fails on '!c a b other'
\* with SubcommandMismatch.
C20_TrailingTokensAnchorToTail ==
    LET args == command_args(call_handler.pattern)
        words == split_whitespace(call_request.command)
    IN  (/\ call_result.kind # "NotCalled"
         /\ CommandRestLiteral
         /\ Len(words) >= 3
         /\ words[1] = args[1].name) =>
            IF words[Len(words)] = args[3].name
            THEN /\ call_result.kind = "Ok"
                 /\ Len(call_result.bound) = 1
                 /\ split_whitespace(call_result.bound[1].val)
                        = SubSeq(words, 2, Len(words) - 1)
            ELSE call_result.kind = "SubcommandMismatch"

\* what the function of the handler was called with: the name of each
\* argument and the text it was bound to
Binding(name, text) == [arg |-> name, val |-> text]

\* C21: '!song add <command> <url> <cooldown..>' on '!song add !walk
\* https://example.com/ 20m' succeeds with command = '!walk', url =
\* 'https://example.com/' and cooldown = '20m'; '!song rm <command>' on
\* '!song rm !walk extra' fails with ArgumentsLeftOver.
C21_EndToEnd ==
    /\ (/\ call_result.kind # "NotCalled"
        /\ call_handler.pattern = SongAdd
        /\ call_request.command = SongAddText) =>
           /\ call_result.kind = "Ok"
           /\ call_result.called
           /\ call_result.bound =
                  <<Binding(<<"c", "o", "m", "m", "a", "n", "d">>, <<"!", "w", "a", "l", "k">>),
                    Binding(<<"u", "r", "l">>,
                            <<"h", "t", "t", "p", "s", ":", "/", "/", "e", "x", "a", "m", "p", "l",
                            "e", ".", "c", "o", "m", "/">>),
                    Binding(<<"c", "o", "o", "l", "d", "o", "w", "n">>, <<"2", "0", "m">>)>>
    /\ (/\ call_result.kind # "NotCalled"
        /\ call_handler.pattern = SongRm
        /\ call_request.command = SongRmText) =>
           /\ call_result.kind = "ArgumentsLeftOver"
           /\ ~call_result.called

\* the function of '!song add ...' ran on the input of the example
C21_Witness ==
    /\ call_handler.pattern = SongAdd
    /\ call_request.command = SongAddText
    /\ call_result.called
    /\ Len(call_result.bound) = 3

\* ------------------------------------------------------------------------
\* Claims on CommandArguments
\* ------------------------------------------------------------------------

\* the offsets, counted from 1, of the first characters of the words of a text
WordStarts(text) ==
    {i \in 1..Len(text) :
        ~is_whitespace(text[i]) /\ (i = 1 \/ is_whitespace(text[i - 1]))}

\* the offsets of the last characters of the words of a text
WordEnds(text) ==
    {i \in 1..Len(text) :
        ~is_whitespace(text[i]) /\ (i = Len(text) \/ is_whitespace(text[i + 1]))}

\* the k-th smallest element of a set of numbers
Kth(S, k) == CHOOSE i \in S : Cardinality({j \in S : j <= i}) = k

\* the text from the first word to the k-th word, the k-th word included
FirstWords(text, k) ==
    IF k = 0 THEN <<>>
    ELSE SubSeq(text, Kth(WordStarts(text), 1), Kth(WordEnds(text), k))

\* the text from the k-th word from the end to the last word
LastWords(text, k) ==
    IF k = 0 THEN <<>>
    ELSE SubSeq(text, Kth(WordStarts(text), Cardinality(WordStarts(text)) + 1 - k),
                Kth(WordEnds(text), Cardinality(WordEnds(text))))

\* every call made so far was a call of that function
OnlyCalled(name) == \A i \in 1..Len(iter_calls) : iter_calls[i].name = name

\* C22: after k calls of next() on a fresh CommandArguments, k up to the
\* number of words, consumed_begin().as_str() is the text from the start of
\* the first word to the end of the k-th word, inner whitespace kept; after k
\* calls of next_back(), consumed_end().as_str() is the text from the start of
\* the k-th word from the end to the end of the last word.
C22_ConsumedTextReproduced ==
    Len(iter_calls) <= Cardinality(WordStarts(iter.str)) =>
        /\ OnlyCalled("next") =>
               as_str(consumed_begin(iter)) = FirstWords(iter.str, Len(iter_calls))
        /\ OnlyCalled("next_back") =>
               as_str(consumed_end(iter)) = LastWords(iter.str, Len(iter_calls))

\* two words were taken from the back of a text that has whitespace at both
\* ends and two spaces between its words
C22_Witness ==
    /\ Len(iter_calls) = 2
    /\ OnlyCalled("next_back")
    /\ Cardinality(WordStarts(iter.str)) = 3
    /\ is_whitespace(iter.str[1])
    /\ is_whitespace(iter.str[Len(iter.str)])
    /\ Len(as_str(consumed_end(iter))) >= 5

\* the template of the handler is a command and one argument, as '!c <n>',
\* '!c [o]' and '!c <rest..>' are
CommandArgument ==
    LET args == command_args(call_handler.pattern)
    IN  /\ Len(args) = 2
        /\ args[1].kind = "Command"
        /\ args[2].kind = "Argument"
        /\ Len(call_handler.fn_args) = 1

\* the words of the input of the call
CallWords == split_whitespace(call_request.command)

\* the type of the function argument does not parse the word
Unparsable(word) ==
    /\ call_handler.fn_args[1].ty = "u32"
    /\ \/ word = <<>>
       \/ \E i \in 1..Len(word) :
              word[i] \notin Digits /\ ~(i = 1 /\ word[i] = "+" /\ Len(word) > 1)

\* C23: a required argument that finds no word left fails with
\* ArgumentMissing; an optional argument that finds no word left is bound to
\* absent and the match goes on to the call; an optional argument whose word
\* is there and does not parse fails with the parsing error that carries the
\* name of the argument.
C23_MissingAndOptionalArguments ==
    LET arg == command_args(call_handler.pattern)[2]
    IN  (/\ call_result.kind # "NotCalled"
         /\ CommandArgument
         /\ Len(CallWords) >= 1
         /\ CallWords[1] = command_args(call_handler.pattern)[1].name) =>
            /\ (Len(CallWords) = 1 /\ ~arg.optional) =>
                   call_result.kind = "ArgumentMissing" /\ ~call_result.called
            /\ (Len(CallWords) = 1 /\ arg.optional) =>
                   /\ call_result.kind = "Ok"
                   /\ call_result.called
                   /\ call_result.bound = <<Binding(arg.name, None)>>
            /\ (Len(CallWords) = 2 /\ arg.optional /\ Unparsable(CallWords[2])) =>
                   /\ call_result.kind = "NamedArgumentParsing"
                   /\ call_result.named = arg.name
                   /\ ~call_result.called

\* an optional number found a word that is no number
C23_Witness ==
    /\ CommandArgument
    /\ command_args(call_handler.pattern)[2].optional
    /\ Len(CallWords) = 2
    /\ Unparsable(CallWords[2])
    /\ call_result.kind = "NamedArgumentParsing"
    /\ call_result.named # None

\* C24: with or without a context, a handler whose command literal differs
\* from the first word of the input, or whose input has no word, fails with
\* CommandMismatch; a handler whose command matches and whose subcommand
\* literal differs from the second word, or finds none, fails with
\* SubcommandMismatch. Letters are compared as they are.
C24_LiteralMismatch ==
    LET args == command_args(call_handler.pattern)
    IN  (call_result.kind # "NotCalled" /\ args[1].kind = "Command") =>
            /\ (CallWords = <<>> \/ CallWords[1] # args[1].name) =>
                   call_result.kind = "CommandMismatch"
            /\ (/\ Len(args) >= 2
                /\ args[2].kind = "Subcommand"
                /\ CallWords # <<>>
                /\ CallWords[1] = args[1].name
                /\ (Len(CallWords) < 2 \/ CallWords[2] # args[2].name)) =>
                   call_result.kind = "SubcommandMismatch"

\* the same for the calls in which every extraction from the request succeeds
C24_LiteralMismatchOnceExtracted ==
    (\A i \in 1..Len(call_handler.fn_args) :
         call_handler.fn_args[i].ty = "State" => call_request.state)
        => C24_LiteralMismatch

\* the word without its first and its last character
Inner(word) == SubSeq(word, 2, Len(word) - 1)

\* the text ends in '..'
EndsInDots(text) ==
    Len(text) >= 2 /\ text[Len(text) - 1] = "." /\ text[Len(text)] = "."

\* the name of an argument: what is between the brackets, without the '..'
NameIn(word) ==
    IF EndsInDots(Inner(word)) THEN SubSeq(Inner(word), 1, Len(Inner(word)) - 2)
    ELSE Inner(word)

\* the word is wrapped in the two brackets
Wrapped(word, open, close) ==
    Len(word) >= 2 /\ word[1] = open /\ word[Len(word)] = close

\* the token a word of a template stands for
Classified(word) ==
    IF word[1] = "!"
    THEN [kind |-> "Command", name |-> word, take_all |-> FALSE, optional |-> FALSE]
    ELSE IF word = <<".", ".">>
    THEN [kind |-> "TakeAll", name |-> <<>>, take_all |-> FALSE, optional |-> FALSE]
    ELSE IF Wrapped(word, "<", ">")
    THEN [kind |-> "Argument", name |-> NameIn(word),
          take_all |-> EndsInDots(Inner(word)), optional |-> FALSE]
    ELSE IF Wrapped(word, "[", "]")
    THEN [kind |-> "Argument", name |-> NameIn(word),
          take_all |-> EndsInDots(Inner(word)), optional |-> TRUE]
    ELSE [kind |-> "Subcommand", name |-> word, take_all |-> FALSE, optional |-> FALSE]

\* C25: compiling a template yields one token for each of its words, in
\* the order of the words: a command for a word with a leading '!', the
\* take-all marker for '..', a required argument for '<name>', an optional one
\* for '[name]', each taking all when the name ends in '..', and a subcommand
\* for every other word.
C25_OneTokenPerWord ==
    expansion.done =>
        /\ Len(command_args(attr)) = Len(TemplateWordsOf)
        /\ \A i \in 1..Len(TemplateWordsOf) :
               i <= Len(command_args(attr)) =>
                   command_args(attr)[i] = Classified(TemplateWordsOf[i])

\* the same for the templates in which no word is repeated
C25_OneTokenPerDistinctWord ==
    (\A i, j \in 1..Len(TemplateWordsOf) :
         TemplateWordsOf[i] = TemplateWordsOf[j] => i = j)
        => C25_OneTokenPerWord

\* ------------------------------------------------------------------------
\* Claims on FindSharedSyntax
\* ------------------------------------------------------------------------

\* the tokens of the prefix of the accumulator
PrefixWords == split_whitespace(as_str(find.prefix))

\* the first n tokens are the same in every template given so far
SharedUpTo(n) ==
    \A i, j \in 1..Len(appended) :
        /\ Len(split_whitespace(appended[i])) >= n
        /\ SubSeq(split_whitespace(appended[i]), 1, n)
               = SubSeq(split_whitespace(appended[j]), 1, n)

\* C26: after any number of contributions, in any order, the prefix of the
\* accumulator is a prefix of the token sequence of every contributed
\* template, and no longer prefix is shared by all of them.
C26_LongestSharedPrefix ==
    appended # <<>> =>
        /\ \A i \in 1..Len(appended) :
               /\ Len(PrefixWords) <= Len(split_whitespace(appended[i]))
               /\ PrefixWords
                      = SubSeq(split_whitespace(appended[i]), 1, Len(PrefixWords))
        /\ ~SharedUpTo(Len(PrefixWords) + 1)

\* three different templates that share their first word and no more were
\* given, the longest first
C26_Witness ==
    /\ Len(appended) = 3
    /\ Len(split_whitespace(appended[1])) = 3
    /\ appended[1] # appended[2] /\ appended[2] # appended[3]
    /\ Len(PrefixWords) = 1
    /\ SharedUpTo(1)

\* ------------------------------------------------------------------------
\* Claims on the chatters registry
\* ------------------------------------------------------------------------

\* the handler of task k has noticed the chatter of its message, and no other
\* task was inside notice_chatter meanwhile
Returned(k) == noticing[k].pc = "done" /\ noticing[k].alone

\* the registry has an entry for the channel and the sender of task k
HasEntry(k) ==
    /\ noticing[k].channel.user_id \in DOMAIN chatters
    /\ noticing[k].sender.user_id \in DOMAIN chatters[noticing[k].channel.user_id]

\* the entry of the channel and the sender of task k
EntryOf(k) == chatters[noticing[k].channel.user_id][noticing[k].sender.user_id]

\* C27: after the handler has processed a Message event with channel c,
\* sender u, text t and message id m, the registry holds an entry for (c, u)
\* whose last message text is t and whose last message identifier is m.
C27_EntryHoldsMessage ==
    \A k \in Noticers :
        Returned(k) =>
            /\ HasEntry(k)
            /\ EntryOf(k).last_message = noticing[k].data
            /\ EntryOf(k).last_message_id = MessageId_from(noticing[k].event_id)

\* the same for the messages that carry the id of the room and of the sender
C27_EntryHoldsMessageWithIds ==
    \A k \in Noticers :
        (/\ Returned(k)
         /\ noticing[k].channel.user_id # NoId
         /\ noticing[k].sender.user_id # NoId)
            => /\ HasEntry(k)
               /\ EntryOf(k).last_message = noticing[k].data
               /\ EntryOf(k).last_message_id = MessageId_from(noticing[k].event_id)

\* what the entry holds: the text of the message and the id literal of the
\* call, for a message that carries both ids
C27_EntryHoldsTextAndLiteral ==
    \A k \in Noticers :
        (/\ Returned(k)
         /\ noticing[k].channel.user_id # NoId
         /\ noticing[k].sender.user_id # NoId)
            => /\ HasEntry(k)
               /\ EntryOf(k).last_message = noticing[k].data
               /\ EntryOf(k).last_message_id = MessageId_from(<<"i", "d">>)

\* the handler of task k has noticed a user the list knew by its id, with a
\* display name that is not the one of the record
Renamed(k) ==
    /\ Returned(k)
    /\ noticing[k].before # None
    /\ noticing[k].before[1].display_name # noticing[k].sender.display_name

\* the display name the record had, and the one of the message
OldName(k) == noticing[k].before[1].display_name
NewName(k) == noticing[k].sender.display_name

\* the lookup returns the record that carries the id of the sender of task k
GetsSender(k, arg) ==
    /\ ChannelChatters_get(arg) # None
    /\ ChannelChatters_get(arg)[1] = noticing[k].sender

\* C28 as stated: after a user already known by numeric id is observed again
\* with a different display name, a lookup by the old display name returns
\* nothing and a lookup by the new display name returns that user's record.
C28_RenamedLookups ==
    \A k \in Noticers :
        Renamed(k) =>
            /\ OldName(k) # None => ChannelChatters_get(OldName(k)) = None
            /\ NewName(k) # None => GetsSender(k, NewName(k))

\* C28: after a user already known by numeric id is observed again with a
\* different display name, a lookup by the old display name returns nothing
\* unless the username index has that name, and a lookup by the new display
\* name returns that user's record unless the username index has that name;
\* a name the username index has is resolved by the username index.
C28_RenamedLookupsByDisplayName ==
    \A k \in Noticers :
        Renamed(k) =>
            /\ (OldName(k) # None /\ OldName(k) \notin DOMAIN all_chatters.usernames)
                   => ChannelChatters_get(OldName(k)) = None
            /\ (NewName(k) # None /\ NewName(k) \notin DOMAIN all_chatters.usernames)
                   => GetsSender(k, NewName(k))
            /\ \A n \in {OldName(k), NewName(k)} \cap DOMAIN all_chatters.usernames :
                   ChannelChatters_get(n)
                       = Some(user_at(all_chatters, all_chatters.usernames[n]))

\* a known user was seen with a new display name; neither name is a username
\* of the index, the old name finds nothing and the new one finds the user
C28_Witness ==
    \E k \in Noticers :
        /\ Renamed(k)
        /\ OldName(k) # None /\ NewName(k) # None
        /\ {OldName(k), NewName(k)} \cap DOMAIN all_chatters.usernames = {}
        /\ ChannelChatters_get(OldName(k)) = None
        /\ GetsSender(k, NewName(k))

\* no two records of a list carry the same id
OneRecordPerId(self) ==
    \A i, j \in 1..Len(self.users) :
        (self.users[i].user_id # NoId /\ self.users[i].user_id = self.users[j].user_id)
            => i = j

\* the id index of a list has every id a record carries, at the index of the
\* record, and nothing else
IdIndexExact(self) ==
    /\ \A i \in 1..Len(self.users) :
           self.users[i].user_id # NoId =>
               /\ self.users[i].user_id \in DOMAIN self.user_ids
               /\ self.user_ids[self.users[i].user_id] = i - 1
    /\ \A id \in DOMAIN self.user_ids :
           /\ self.user_ids[id] < Len(self.users)
           /\ user_at(self, self.user_ids[id]).user_id = id

\* C29: at every reachable state, under any interleaving of concurrent
\* notice_chatter calls, no two records of the identity list carry the same
\* numeric id, and the id index maps each known id to the one record that
\* carries it.
C29_OneRecordPerId ==
    /\ OneRecordPerId(all_chatters) /\ IdIndexExact(all_chatters)
    /\ OneRecordPerId(all_channels) /\ IdIndexExact(all_channels)

\* two tasks were given messages of the same user, under two display names,
\* while the list did not know the id; both have been through the write lock
C29_Witness ==
    \E j, k \in Noticers :
        /\ j # k
        /\ noticing[j].pc = "done" /\ noticing[k].pc = "done"
        /\ noticing[j].before = None /\ noticing[k].before = None
        /\ noticing[j].sender.user_id # NoId
        /\ noticing[j].sender.user_id = noticing[k].sender.user_id
        /\ noticing[j].sender.display_name # noticing[k].sender.display_name
        /\ Len(all_chatters.users) = 1

\* every entry of the three indexes of a list is the index of a record whose
\* username, display name or id is the key of the entry
NoStaleEntry(self) ==
    /\ \A n \in DOMAIN self.usernames :
           /\ self.usernames[n] < Len(self.users)
           /\ user_at(self, self.usernames[n]).username = n
    /\ \A n \in DOMAIN self.display_names :
           /\ self.display_names[n] < Len(self.users)
           /\ user_at(self, self.display_names[n]).display_name = n
    /\ \A id \in DOMAIN self.user_ids :
           /\ self.user_ids[id] < Len(self.users)
           /\ user_at(self, self.user_ids[id]).user_id = id

\* C30: at every reachable state of the identity index, each entry of the
\* username index, the display-name index and the id index points at a record
\* whose current username, display name or id equals the entry's key; no
\* entry is left under a key its record no longer has.
C30_NoStaleEntry == NoStaleEntry(all_chatters) /\ NoStaleEntry(all_channels)

\* a user the list knew by its id was seen under another username and another
\* display name: the previous keys are gone and the new ones are entries of
\* the record
C30_Witness ==
    \E k \in Noticers :
        /\ Renamed(k)
        /\ OldName(k) # None /\ NewName(k) # None
        /\ noticing[k].before[1].username # noticing[k].sender.username
        /\ noticing[k].before[1].username \notin DOMAIN all_chatters.usernames
        /\ OldName(k) \notin DOMAIN all_chatters.display_names
        /\ user_at(all_chatters, all_chatters.usernames[noticing[k].sender.username])
               = noticing[k].sender
        /\ user_at(all_chatters, all_chatters.display_names[NewName(k)])
               = noticing[k].sender
        /\ Len(all_chatters.users) > 1

\* ------------------------------------------------------------------------
\* Claims on the moderation clears
\* ------------------------------------------------------------------------

\* the channel id the last clear resolved its channel to, or None
ClearedId == resolve_channel(cleared.names, cleared.channel)

\* the entries a map has for a channel id
EntriesOf(map, c) == IF c \in DOMAIN map THEN map[c] ELSE EmptyMap

\* the last clear left the entries of every channel but c as they were
OthersKept(c) ==
    /\ DOMAIN cleared.after = DOMAIN cleared.before
    /\ \A d \in DOMAIN cleared.before \ {c} : cleared.after[d] = cleared.before[d]

\* the last clear removed from channel c the entries that satisfy Gone, and
\* left the others as they were
RemovedExactly(c, Gone(_)) ==
    /\ DOMAIN EntriesOf(cleared.after, c)
           = {u \in DOMAIN EntriesOf(cleared.before, c) : ~Gone(u)}
    /\ \A u \in DOMAIN EntriesOf(cleared.after, c) :
           cleared.after[c][u] = cleared.before[c][u]

\* the entry of user u in channel c is the one keyed by the target id
KeyedByTarget(u) == u = cleared.user_id

\* the entry of user u in the channel of the clear has the target login
NamedAsTarget(u) == cleared.before[ClearedId[1]][u].username = cleared.name

\* C31: clear_chat on a channel that resolves to an id: given a target user
\* id, it removes exactly the presence entry keyed by that id in that channel
\* and ignores the login name; given only a login name, it removes exactly the
\* entries of that channel whose username equals it. Entries of other users in
\* that channel and all entries of other channels are unchanged.
C31_ClearChatExact ==
    (cleared.kind = "clear_chat" /\ ClearedId # None) =>
        /\ OthersKept(ClearedId[1])
        /\ cleared.user_id # NoId => RemovedExactly(ClearedId[1], KeyedByTarget)
        /\ (cleared.user_id = NoId /\ cleared.name # None)
               => RemovedExactly(ClearedId[1], NamedAsTarget)

\* a clear_chat with a target id and a login, in a channel where a second
\* user has that login and while another channel has entries: the entry of the
\* id is gone, the one of the second user is still there
C31_Witness ==
    /\ cleared.kind = "clear_chat" /\ ClearedId # None
    /\ cleared.user_id # NoId /\ cleared.name # None
    /\ cleared.user_id \in DOMAIN EntriesOf(cleared.before, ClearedId[1])
    /\ cleared.user_id \notin DOMAIN EntriesOf(cleared.after, ClearedId[1])
    /\ \E u \in DOMAIN EntriesOf(cleared.after, ClearedId[1]) :
           cleared.after[ClearedId[1]][u].username = cleared.name
    /\ \E d \in DOMAIN cleared.after : d # ClearedId[1] /\ DOMAIN cleared.after[d] # {}

\* the channel of the last clear carries no id and its name has no recorded id
Unresolved ==
    /\ cleared.channel.user_id = NoId
    /\ cleared.channel.username \notin DOMAIN cleared.names

\* the id of the channel of the last clear, or the one recorded for its name
ClearedChannel ==
    IF cleared.channel.user_id # NoId THEN cleared.channel.user_id
    ELSE cleared.names[cleared.channel.username]

\* C32: a moderation clear (clear_chat or clear_message) removes presence
\* entries of channels other than the event's channel if and only if the
\* event's channel carries no numeric id and its name has no recorded id; in
\* that case the presence entries of every channel are removed, while the
\* identity index is left unchanged.
C32_ClearAllOnlyUnresolved ==
    cleared.kind # "none" =>
        /\ Unresolved => DOMAIN cleared.after = {}
        /\ ~Unresolved => OthersKept(ClearedChannel)
        /\ cleared.index_after = cleared.index_before

\* a clear for a room without an id whose name was never recorded, while two
\* channels had entries: none is left, and the identity list still has its users
C32_Witness ==
    /\ cleared.kind # "none"
    /\ Unresolved
    /\ \E c, d \in DOMAIN cleared.before :
           c # d /\ DOMAIN cleared.before[c] # {} /\ DOMAIN cleared.before[d] # {}
    /\ DOMAIN cleared.after = {}
    /\ Len(cleared.index_after.users) > 1

\* ------------------------------------------------------------------------
\* Claims on the responder
\* ------------------------------------------------------------------------

\* the first character of a text that is no whitespace, as a text, or None
FirstNonSpace(text) ==
    IF \A i \in 1..Len(text) : text[i] = " " THEN None
    ELSE <<text[CHOOSE i \in 1..Len(text) :
                    text[i] # " " /\ \A j \in 1..(i - 1) : text[j] = " "]>>

\* a response that has a text which is not blank and, unless it is a command,
\* does not begin with '/' or '.'
Allowed(r) ==
    /\ r.some
    /\ FirstNonSpace(r.text) # None
    /\ r.command \/ FirstNonSpace(r.text) \notin {<<"/">>, <<".">>}

\* the texts written to the sink, in order
Written == [i \in 1..Len(sink) |-> sink[i].text]

\* the texts of the allowed ones of the responses given, in order
AllowedTexts == [i \in 1..Len(SelectSeq(given, Allowed)) |-> SelectSeq(given, Allowed)[i].text]

\* C33: a response is written to the outgoing sink at most once, and only if
\* its text is not blank and, unless its is_command flag is set, does not
\* begin (after leading whitespace) with '/' or '.'; a response with
\* is_command set is sent even when it begins with '/' or '.'.
C33_WrittenOnceIfAllowed == Written = AllowedTexts

\* two responses were given: a command that begins with '.' behind a blank,
\* which was written, and the same text without the flag, which was not
C33_Witness ==
    /\ Len(given) = 2
    /\ given[1].command /\ given[1].text = <<" ", ".", "x">>
    /\ ~given[2].command /\ given[2].text = <<" ", ".", "x">>
    /\ Written = << <<" ", ".", "x">> >>

\* the tokens of the prefix before the last contribution, and of the template
\* contributed last
PrefixBefore == split_whitespace(as_str(find_before.prefix))
LastTemplate == split_whitespace(appended[Len(appended)])

\* the first position at which the prefix before and the last template differ,
\* or at which one of them has run out
DivergesAt(k) ==
    /\ k \in 1..(MaxSyntaxWords + 6)
    /\ \A i \in 1..(k - 1) :
           /\ i <= Len(PrefixBefore) /\ i <= Len(LastTemplate)
           /\ PrefixBefore[i] = LastTemplate[i]
    /\ \/ k > Len(PrefixBefore)
       \/ k > Len(LastTemplate)
       \/ PrefixBefore[k] # LastTemplate[k]
    /\ k <= Len(PrefixBefore) \/ k <= Len(LastTemplate)

\* the one or two tokens at position k: of the prefix, then of the template
TokensAt(k) ==
    (IF k <= Len(PrefixBefore) THEN <<PrefixBefore[k]>> ELSE <<>>)
        \o (IF k <= Len(LastTemplate) THEN <<LastTemplate[k]>> ELSE <<>>)

\* C34 as stated: whenever a contribution to the syntax accumulator finds a
\* divergence (two tokens differ, or either the current prefix or the new
\* template runs out first), the alternatives accumulated so far are discarded
\* and the alternative set afterwards holds only the one or two tokens found
\* at the divergence position.
C34_DivergenceReplacesChoice ==
    find_before.some =>
        \A k \in 1..(MaxSyntaxWords + 6) :
            DivergesAt(k) => find.choice = TokensAt(k)

\* C34: whenever a contribution differs from the current prefix inside the
\* prefix (two tokens differ, or the new template runs out first), the prefix
\* is cut before that position, the alternatives accumulated so far are
\* discarded and the alternatives afterwards are the one or two tokens found
\* at that position; when the prefix runs out first, the prefix and the
\* alternatives are kept and the next token of the template is added to them.
C34_DivergenceInsidePrefixReplacesChoice ==
    find_before.some =>
        \A k \in 1..(MaxSyntaxWords + 6) :
            DivergesAt(k) =>
                IF k <= Len(PrefixBefore)
                THEN /\ find.choice = TokensAt(k)
                     /\ PrefixWords = SubSeq(PrefixBefore, 1, k - 1)
                ELSE /\ find.choice = find_before.choice \o TokensAt(k)
                     /\ PrefixWords = PrefixBefore

\* an accumulator with two alternatives was given a template that differs
\* from its prefix at the first token behind the command: the two alternatives
\* are gone and the two tokens of that position are the alternatives
C34_Witness ==
    /\ find_before.some
    /\ Len(find_before.choice) = 2
    /\ Len(PrefixBefore) = 2
    /\ DivergesAt(2)
    /\ Len(find.choice) = 2
    /\ find.choice = TokensAt(2)
    /\ find.choice[1] # find_before.choice[1]

\* the tokens the templates given so far have right after the common prefix
TokensAfterPrefix ==
    {split_whitespace(appended[i])[Len(PrefixWords) + 1] :
         i \in {j \in 1..Len(appended) :
                    Len(split_whitespace(appended[j])) > Len(PrefixWords)}}

\* the alternatives of the accumulator, as a set
ChoiceSet == {find.choice[i] : i \in 1..Len(find.choice)}

\* no alternative is listed twice
ChoiceDistinct ==
    \A i, j \in 1..Len(find.choice) : find.choice[i] = find.choice[j] => i = j

\* C35: after any sequence of contributions, in any order, the accumulator's
\* alternatives are a set: they are exactly the distinct tokens that the
\* contributed templates have at the position right after the common prefix,
\* and no token is listed twice in the rendered suggestion.
C35_ChoiceIsTheSetAfterPrefix ==
    appended # <<>> =>
        /\ ChoiceSet = TokensAfterPrefix
        /\ ChoiceDistinct

\* the alternatives are tokens that follow the common prefix in a template
C35_ChoiceWithinTokensAfterPrefix ==
    appended # <<>> => ChoiceSet \subseteq TokensAfterPrefix

\* the alternatives are all the tokens that follow the common prefix
C35_ChoiceCoversTokensAfterPrefix ==
    appended # <<>> => TokensAfterPrefix \subseteq ChoiceSet

\* ------------------------------------------------------------------------
\* Claims on the interleaving of next() and next_back()
\* ------------------------------------------------------------------------

\* a call of next() that returned an item, and one of next_back()
GotFront(c) == c.name = "next" /\ c.got # None
GotBack(c) == c.name = "next_back" /\ c.got # None

\* the items next() returned so far, and the ones next_back() returned
FrontItems == SelectSeq(iter_calls, GotFront)
BackItems == SelectSeq(iter_calls, GotBack)

\* the whitespace-separated words of the text of the iterator
IterWords == split_whitespace(iter.str)

\* the items returned are words from the two ends of the text, none twice,
\* and all of them once a call has returned None
TakenFromBothEnds ==
    /\ \A i \in 1..Len(iter_calls) :
           \A j \in 1..Len(iter_calls[i].got) : ~is_whitespace(iter_calls[i].got[j])
    /\ Len(FrontItems) + Len(BackItems) <= Len(IterWords)
    /\ \A i \in 1..Len(FrontItems) :
           i <= Len(IterWords) => FrontItems[i].got = IterWords[i]
    /\ \A i \in 1..Len(BackItems) :
           i <= Len(IterWords) => BackItems[i].got = IterWords[Len(IterWords) + 1 - i]
    /\ (\E i \in 1..Len(iter_calls) : iter_calls[i].got = None)
           => Len(FrontItems) + Len(BackItems) = Len(IterWords)

\* C36: for every input string and every interleaving of next() and
\* next_back() calls on one CommandArguments, each call returns a single word
\* without whitespace, next() returns words from the front in order,
\* next_back() returns words from the back in reverse order, no word is
\* returned twice, and together the calls return exactly the
\* whitespace-separated words of the input before returning None.
C36_InterleavedWords == TakenFromBothEnds

\* no call of next_back() came after a call of next() that returned an item
BackBeforeFront ==
    \A i, j \in 1..Len(iter_calls) :
        (i < j /\ GotFront(iter_calls[i])) => iter_calls[j].name = "next"

\* the same for the sequences of calls in which every next_back() comes before
\* the first next() that returns an item
C36_InterleavedWordsBackFirst == BackBeforeFront => TakenFromBothEnds

\* ------------------------------------------------------------------------
\* Claims on the handles of a channel
\* ------------------------------------------------------------------------

\* the callers that hold a handle: their last get / get_arc returned a slot
HandleHolders == {t \in Callers : cret[t] # NoSlot}

\* C37: for each channel key, every handle obtained from get_arc or get (or
\* kept by a CachedChannelContainer) refers to the slot the container
\* currently maps that key to, so two holders never work on different slots
\* of the same channel.
C37_HandlesReferToMappedSlot ==
    /\ \A t \in HandleHolders :
           /\ ckey[t] \in DOMAIN container
           /\ cret[t] = container[ckey[t]]
    /\ \A t, u \in HandleHolders : ckey[t] = ckey[u] => cret[t] = cret[u]

\* the same as long as no two calls overlapped
C37_HandlesReferToMappedSlotSequential ==
    ~overlapped => C37_HandlesReferToMappedSlot

\* ------------------------------------------------------------------------
\* Claims on the lookup of known users by name
\* ------------------------------------------------------------------------

\* every record of a list that carries an id is found under its username:
\* the username index has the username and leads to a record of that username
ResolvableByName(self) ==
    \A i \in 1..Len(self.users) :
        self.users[i].user_id # NoId =>
            /\ self.users[i].username \in DOMAIN self.usernames
            /\ self.usernames[self.users[i].username] < Len(self.users)
            /\ user_at(self, self.usernames[self.users[i].username]).username
                   = self.users[i].username
            /\ AllChatters_index_from_userargument(self, self.users[i].username) # None

\* C38: after any sequence of notice_chatter observations, every record of
\* the identity list that has a numeric id and current username u is
\* resolvable by name: the username index contains u and maps it to a record
\* whose current username is u, so a lookup of u does not return nothing.
C38_ResolvableByName == ResolvableByName(all_chatters)

\* ------------------------------------------------------------------------
\* Claims on the filter of the bot
\* ------------------------------------------------------------------------

\* handle has returned for a message with an id that the filter rejected
RejectedAndDone == hpc = "done" /\ chat_bot.filter = "reject" /\ message.id # None

\* the lines of the sink that are the command '.delete <id>' of the message
DeleteLines ==
    {i \in DOMAIN sink :
        /\ sink[i].command
        /\ sink[i].text = <<".", "d", "e", "l", "e", "t", "e", " ">> \o message.id}

\* the room of the message, as handle gave it to notice_chatter
Room == noticing[1].channel

\* C39: when a filter is configured and it rejects a message that carries a
\* message id, the message is never passed to the command processor, the
\* presence entry of the sender in the room of the message is removed, and
\* exactly one '.delete <message id>' command is written to the sink.
C39_RejectedIsDeleted ==
    RejectedAndDone =>
        /\ ~processed
        /\ tried = <<>>
        /\ \A c \in DOMAIN chatters :
               Room.user_id \in {c, NoId} => message.sender.user_id \notin DOMAIN chatters[c]
        /\ Cardinality(DeleteLines) = 1

\* a command of a chatter that had been noticed in the room was rejected: the
\* entry notice_chatter made for it is gone, an entry of another chatter is
\* left
C39_Witness ==
    /\ RejectedAndDone
    /\ IsCommand(message.data)
    /\ cleared.kind = "filter"
    /\ Room.user_id \in DOMAIN cleared.before
    /\ message.sender.user_id \in DOMAIN cleared.before[Room.user_id]
    /\ cleared.before[Room.user_id][message.sender.user_id].last_message = message.data
    /\ Room.user_id \in DOMAIN chatters
    /\ chatters[Room.user_id] # EmptyMap
    /\ Len(sink) = 1

\* ------------------------------------------------------------------------
\* Claims on the termination of the calls of a persisted value
\* ------------------------------------------------------------------------

\* no task that is outside a call holds the permit, and while no task holds
\* it every permit of every channel is free
PermitFreeAfterReturn ==
    /\ \A t \in Tasks : ~Active(t) => ~permit[t]
    /\ \A c \in Channels :
           (\A t \in Tasks : ~(permit[t] /\ chan[t] = c)) => lock[c] = Permits

\* C40: provided every disk operation eventually completes, successfully or
\* with an error, every read(), update() and maybe_update() call eventually
\* returns, and the permit is free again after it returns on every path, so
\* no sequence of calls leaves a later caller waiting forever.
C40_CallsReturnAndFreeThePermit ==
    /\ []PermitFreeAfterReturn
    /\ \A t \in Tasks : Active(t) ~> (pc[t] = "done" /\ ~permit[t])

\* two updates of one channel have returned, the first after a failed write,
\* and the permit is free
C40_Witness ==
    \E t, u \in Tasks :
        /\ t # u
        /\ pc[t] = "done" /\ pc[u] = "done"
        /\ result[t] = "err" /\ whook[t] # <<>>
        /\ Len(chain[active]) = 2
        /\ chain[active][1].by = t /\ chain[active][2].by = u
        /\ lock[active] = Permits

====
